---- MODULE Spec2Model ----
(***************************************************************************)
(* Trends Factory: the file-backed project state, the delta protocol and   *)
(* the stage state machine (orchestrator/projectState.ts and               *)
(* orchestrator/stateMachine.ts), with the production agents as the        *)
(* environment: an agent call returns a payload or throws.                 *)
(***************************************************************************)
EXTENDS Integers, Sequences, FiniteSets, TLC

\* ------------------------------------------------------------------------
\* Bounds of the model
\* ------------------------------------------------------------------------
MaxRuns == 2      \* command-line invocations in one behaviour
MaxTime == 2      \* the clock stops advancing here (later stamps are equal)
MaxRegen == 2     \* cap on regenerationCount for direct applyDelta calls
MaxFaults == 1    \* failures the environment injects in one behaviour
MaxCalls == 3     \* state-store calls of one caller in one behaviour

\* ------------------------------------------------------------------------
\* Values
\* ------------------------------------------------------------------------
NULL == "null"                 \* JSON null
UNDEF == "undefined"           \* key absent / undefined
NONSTRING == "<non-string>"    \* a run-time value that is not a string

STAGE_ORDER == <<"INIT", "SCRIPTED", "VISUALIZED", "VIDEO_GENERATED", "ASSEMBLED">>
StageSchema == {STAGE_ORDER[i] : i \in 1..Len(STAGE_ORDER)}

QUALITY_THRESHOLD == 65            \* 6.5, scores are in tenths
MAX_REGENERATION_ATTEMPTS == 3

NoFile == [exists |-> FALSE]
NoQuality == [isNull |-> TRUE]     \* trendQuality: null

Seeds == {42, 7}
RunIds == {"run_a", "run_b"}

\* what the synthesis model can return (already validated by synthesizeTrend)
Syntheses ==
  { [patternAnalysis |-> "analysis_A", trend |-> "trend_A"],
    [patternAnalysis |-> "analysis_B", trend |-> "trend_B"] }

\* overall scores the assessment model can return, in tenths
Scores == {60, 65}

IsString(x) == x \notin {NULL, UNDEF, NONSTRING}
OptString(x) == x # NULL /\ x # NONSTRING          \* z.string().optional()

\* ------------------------------------------------------------------------
\* Schema layer
\* ------------------------------------------------------------------------
TrendQualitySchema(q) ==
  /\ q # NoQuality
  /\ q.overallScore \in 0..100
  /\ q.passesThreshold \in BOOLEAN
  /\ q.rejectionReason # UNDEF /\ q.rejectionReason # NONSTRING

SceneSchema(s) ==
  /\ IsString(s.sceneId) /\ s.sceneId # ""
  /\ IsString(s.intent) /\ s.intent # ""
  /\ s.absurdityLevel >= 1 /\ s.absurdityLevel <= 10
  /\ OptString(s.visualPrompt)
  /\ OptString(s.continuityConstraints)
  /\ OptString(s.conceptImagePath)
  /\ OptString(s.videoClipPath)
  /\ OptString(s.continuityFramePath)

\* the keys a state record must carry: every key of the schema but
\* regenerationCount, which has a default (an absent `error` is error = UNDEF)
StateKeys ==
  {"projectId", "runId", "seed", "createdAt", "updatedAt", "stage",
   "patternAnalysis", "trend", "trendQuality", "scenes", "globalContinuity", "error"}

\* ProjectStateSchema.safeParse(s).success
ProjectStateSchema(s) ==
  /\ StateKeys \subseteq DOMAIN s
  /\ IsString(s.projectId) /\ s.projectId # ""
  /\ IsString(s.runId) /\ s.runId # ""
  /\ s.seed \in Int
  /\ s.createdAt \in Nat
  /\ s.updatedAt \in Nat
  /\ s.stage \in StageSchema
  /\ (s.patternAnalysis = NULL \/ IsString(s.patternAnalysis))
  /\ (s.trend = NULL \/ IsString(s.trend))
  /\ (s.trendQuality = NoQuality \/ TrendQualitySchema(s.trendQuality))
  /\ \A i \in 1..Len(s.scenes) : SceneSchema(s.scenes[i])
  /\ (s.globalContinuity = NULL \/ IsString(s.globalContinuity))
  /\ s.error # NONSTRING
  /\ ("regenerationCount" \in DOMAIN s => s.regenerationCount \in Int)

\* ProjectStateSchema.safeParse(s).data of a record that passes: the record,
\* with regenerationCount: z.number().int().default(0) filled in when absent
parsedData(s) ==
  IF "regenerationCount" \in DOMAIN s
    THEN s
    ELSE [ projectId |-> s.projectId,
           runId |-> s.runId,
           seed |-> s.seed,
           createdAt |-> s.createdAt,
           updatedAt |-> s.updatedAt,
           stage |-> s.stage,
           patternAnalysis |-> s.patternAnalysis,
           trend |-> s.trend,
           trendQuality |-> s.trendQuality,
           scenes |-> s.scenes,
           globalContinuity |-> s.globalContinuity,
           error |-> s.error,
           regenerationCount |-> 0 ]

\* ------------------------------------------------------------------------
\* State store
\* ------------------------------------------------------------------------
Tick(t) == IF t < MaxTime THEN t + 1 ELSE t

\* faulty variant: the seed handed in is ignored
createInitialState_ownSeed(seed, runId, now) ==
  [ projectId |-> "trends_" \o ToString(now),
    runId |-> runId,
    seed |-> 42,
    createdAt |-> now,
    updatedAt |-> now,
    stage |-> "INIT",
    patternAnalysis |-> NULL,
    trend |-> NULL,
    trendQuality |-> NoQuality,
    scenes |-> << >>,
    globalContinuity |-> NULL,
    error |-> NULL,
    regenerationCount |-> 0 ]

createInitialState(seed, runId, now) ==
  [ projectId |-> "trends_" \o ToString(now),
    runId |-> runId,
    seed |-> seed,
    createdAt |-> now,
    updatedAt |-> now,
    stage |-> "INIT",
    patternAnalysis |-> NULL,
    trend |-> NULL,
    trendQuality |-> NoQuality,
    scenes |-> << >>,
    globalContinuity |-> NULL,
    error |-> NULL,
    regenerationCount |-> 0 ]

\* faulty variant: the state is written without being validated
saveState_unchecked(state, f, now) ==
  [ok |-> TRUE, err |-> NULL, file |-> [state EXCEPT !.updatedAt = now]]

\* faulty variant: a write keeps the visual prompts the file has and the
\* written state lacks
saveState_keepsPrompts(state, f, now) ==
  IF ~ProjectStateSchema(state)
    THEN [ok |-> FALSE, err |-> "Attempted to save invalid state", file |-> f]
    ELSE [ok |-> TRUE, err |-> NULL,
          file |-> [state EXCEPT
                      !.updatedAt = now,
                      !.scenes = [i \in 1..Len(state.scenes) |->
                         IF f # NoFile /\ i <= Len(f.scenes)
                              /\ state.scenes[i].visualPrompt = UNDEF
                           THEN [state.scenes[i] EXCEPT
                                   !.visualPrompt = f.scenes[i].visualPrompt]
                           ELSE state.scenes[i]]]]

\* saveState(state): the outcome and the file it leaves, written at time now
saveState(state, f, now) ==
  IF ~ProjectStateSchema(state)
    THEN [ok |-> FALSE, err |-> "Attempted to save invalid state", file |-> f]
    ELSE [ok |-> TRUE, err |-> NULL, file |-> [state EXCEPT !.updatedAt = now]]

\* faulty variant: a created initial state is returned without being written
loadStateAt_notPersisted(f, seed, runId, now, written) ==
  IF f = NoFile
    THEN [ok |-> TRUE, err |-> NULL,
          state |-> createInitialState(seed, runId, now), file |-> f]
    ELSE IF ~ProjectStateSchema(f)
      THEN [ok |-> FALSE, err |-> "Invalid state file", state |-> f, file |-> f]
      ELSE [ok |-> TRUE, err |-> NULL, state |-> parsedData(f), file |-> f]

\* loadState() when the initial state is created at time now and written at
\* time written: the state returned and the file left (created when absent)
loadStateAt(f, seed, runId, now, written) ==
  IF f = NoFile
    THEN LET initialState == createInitialState(seed, runId, now)
         IN [ok |-> TRUE, err |-> NULL, state |-> initialState,
             file |-> saveState(initialState, f, written).file]
    ELSE IF ~ProjectStateSchema(f)
      THEN [ok |-> FALSE, err |-> "Invalid state file", state |-> f, file |-> f]
      ELSE [ok |-> TRUE, err |-> NULL, state |-> parsedData(f), file |-> f]

\* loadState() when the creation and the write fall in the same clock tick
loadState(f, seed, runId, now) == loadStateAt(f, seed, runId, now, now)

\* faulty variant: the reset only puts an existing state back to INIT
resetState_keepsData(f, seed, runId, now) ==
  LET initialState == createInitialState(seed, runId, now)
      state == IF f = NoFile THEN initialState ELSE [f EXCEPT !.stage = "INIT"]
  IN [state |-> state, file |-> saveState(state, f, now).file]

resetState(f, seed, runId, now) ==
  LET initialState == createInitialState(seed, runId, now)
  IN [state |-> initialState, file |-> saveState(initialState, f, now).file]

\* ------------------------------------------------------------------------
\* Stage transition rules
\* ------------------------------------------------------------------------
VALID_TRANSITIONS(from) ==
  CASE from = "INIT" -> {"SCRIPTED"}
    [] from = "SCRIPTED" -> {"VISUALIZED"}
    [] from = "VISUALIZED" -> {"VIDEO_GENERATED"}
    [] from = "VIDEO_GENERATED" -> {"ASSEMBLED"}
    [] from = "ASSEMBLED" -> {}

\* faulty variant: any later stage is accepted
canTransition_anyLater(from, to) ==
  \E i, j \in 1..Len(STAGE_ORDER) : STAGE_ORDER[i] = from /\ STAGE_ORDER[j] = to /\ i < j

canTransition(from, to) == to \in VALID_TRANSITIONS(from)

\* faulty variant: every stage has the same position
getStageOrder_flat(stage) == 1

getStageOrder(stage) == CHOOSE i \in 1..Len(STAGE_ORDER) : STAGE_ORDER[i] = stage

\* faulty variant: the stage itself is taken for its predecessor
getPreviousStage_same(stage) == stage

getPreviousStage(stage) ==
  IF getStageOrder(stage) <= 1 THEN "INIT" ELSE STAGE_ORDER[getStageOrder(stage) - 1]

\* ------------------------------------------------------------------------
\* Delta application
\* ------------------------------------------------------------------------
Thrown(msg, state) == [ok |-> FALSE, err |-> msg, state |-> state]
Returned(state) == [ok |-> TRUE, err |-> NULL, state |-> state]

\* faulty variant: an unknown identifier falls on the last scene
findIndex_lastWhenAbsent(scenes, id) ==
  IF \E i \in 1..Len(scenes) : scenes[i].sceneId = id
    THEN CHOOSE i \in 1..Len(scenes) : scenes[i].sceneId = id
    ELSE Len(scenes)

\* scenes.findIndex(s => s.sceneId === id), 0 when there is none
findIndex(scenes, id) ==
  IF \E i \in 1..Len(scenes) : scenes[i].sceneId = id
    THEN CHOOSE i \in 1..Len(scenes) :
           /\ scenes[i].sceneId = id
           /\ \A j \in 1..(i - 1) : scenes[j].sceneId # id
    ELSE 0

\* faulty variant: every assessment counts as a rejection
regenerationCountAfter_always(state, trendQuality) == state.regenerationCount + 1

\* regenerationCount of newState in the TREND_QUALITY_ASSESSED case
regenerationCountAfter(state, trendQuality) ==
  IF trendQuality.passesThreshold
    THEN state.regenerationCount
    ELSE state.regenerationCount + 1

\* the switch of applyDelta: newState, or the error thrown
deltaSwitch(state, delta) ==
  CASE delta.type = "TREND_SYNTHESIZED" ->
         IF state.stage # "INIT"
           THEN Thrown("Cannot apply TREND_SYNTHESIZED in stage " \o state.stage, state)
           ELSE Returned([state EXCEPT !.patternAnalysis = delta.payload.patternAnalysis,
                                       !.trend = delta.payload.trend])
    [] delta.type = "TREND_QUALITY_ASSESSED" ->
         IF state.stage # "INIT"
           THEN Thrown("Cannot apply TREND_QUALITY_ASSESSED in stage " \o state.stage, state)
           ELSE Returned([state EXCEPT
                  !.trendQuality = delta.payload.trendQuality,
                  !.regenerationCount =
                     regenerationCountAfter(state, delta.payload.trendQuality)])
    [] delta.type = "ESCALATION_PLANNED" ->
         IF state.stage # "INIT"
           THEN Thrown("Cannot apply ESCALATION_PLANNED in stage " \o state.stage, state)
           ELSE Returned([state EXCEPT !.scenes = delta.payload.scenes,
                                       !.globalContinuity = delta.payload.globalContinuity])
    [] delta.type = "SCENE_VISUALIZED" ->
         IF state.stage # "SCRIPTED"
           THEN Thrown("Cannot apply SCENE_VISUALIZED in stage " \o state.stage, state)
           ELSE LET visualizedSceneIndex == findIndex(state.scenes, delta.payload.sceneId)
                IN IF visualizedSceneIndex = 0
                     THEN Thrown("Scene not found: " \o delta.payload.sceneId, state)
                     ELSE Returned([state EXCEPT !.scenes[visualizedSceneIndex] =
                            [@ EXCEPT !.visualPrompt = delta.payload.visualPrompt,
                                      !.continuityConstraints = delta.payload.continuityConstraints,
                                      !.conceptImagePath = delta.payload.conceptImagePath]])
    [] delta.type = "SCENE_VIDEO_GENERATED" ->
         IF state.stage # "VISUALIZED"
           THEN Thrown("Cannot apply SCENE_VIDEO_GENERATED in stage " \o state.stage, state)
           ELSE LET videoSceneIndex == findIndex(state.scenes, delta.payload.sceneId)
                IN IF videoSceneIndex = 0
                     THEN Thrown("Scene not found: " \o delta.payload.sceneId, state)
                     ELSE Returned([state EXCEPT !.scenes[videoSceneIndex] =
                            [@ EXCEPT !.videoClipPath = delta.payload.videoClipPath,
                                      !.continuityFramePath = delta.payload.continuityFramePath]])
    [] OTHER -> Thrown("Unknown delta type: " \o delta.type, state)

\* faulty variant: the state is written before the delta is looked at
applyDelta_writesFirst(state, delta, f, now) ==
  LET sw == deltaSwitch(state, delta)
      touched == saveState(state, f, now).file
      saved == saveState(sw.state, touched, now)
  IN IF ~sw.ok
       THEN [ok |-> FALSE, err |-> sw.err, state |-> state, file |-> touched]
       ELSE IF ~saved.ok
         THEN [ok |-> FALSE, err |-> saved.err, state |-> state, file |-> touched]
         ELSE [ok |-> TRUE, err |-> NULL, state |-> sw.state, file |-> saved.file]

\* faulty variant: the new state is returned without being written
applyDelta_notSaved(state, delta, f, now) ==
  LET sw == deltaSwitch(state, delta)
  IN IF ~sw.ok
       THEN [ok |-> FALSE, err |-> sw.err, state |-> state, file |-> f]
       ELSE [ok |-> TRUE, err |-> NULL, state |-> sw.state, file |-> f]

\* applyDelta(state, delta): what it returns or throws, and the file it leaves
applyDelta(state, delta, f, now) ==
  LET sw == deltaSwitch(state, delta)
      saved == saveState(sw.state, f, now)
  IN IF ~sw.ok
       THEN [ok |-> FALSE, err |-> sw.err, state |-> state, file |-> f]
       ELSE IF ~saved.ok
         THEN [ok |-> FALSE, err |-> saved.err, state |-> state, file |-> f]
         ELSE [ok |-> TRUE, err |-> NULL, state |-> sw.state, file |-> saved.file]

\* faulty variant: the transition leaves the error field as it was
transitionStage_keepsError(state, to, f, now) ==
  LET newState == [state EXCEPT !.stage = to]
      saved == saveState(newState, f, now)
  IN IF ~canTransition(state.stage, to)
       THEN [ok |-> FALSE,
             err |-> "Invalid stage transition: " \o state.stage \o " -> " \o to,
             state |-> state, file |-> f]
       ELSE IF ~saved.ok
         THEN [ok |-> FALSE, err |-> saved.err, state |-> state, file |-> f]
         ELSE [ok |-> TRUE, err |-> NULL, state |-> newState, file |-> saved.file]

\* transitionStage(state, to)
transitionStage(state, to, f, now) ==
  LET newState == [state EXCEPT !.stage = to, !.error = NULL]
      saved == saveState(newState, f, now)
  IN IF ~canTransition(state.stage, to)
       THEN [ok |-> FALSE,
             err |-> "Invalid stage transition: " \o state.stage \o " -> " \o to,
             state |-> state, file |-> f]
       ELSE IF ~saved.ok
         THEN [ok |-> FALSE, err |-> saved.err, state |-> state, file |-> f]
         ELSE [ok |-> TRUE, err |-> NULL, state |-> newState, file |-> saved.file]

\* faulty variant: recording the error also steps the stage back
setError_stepsBack(state, error, f, now) ==
  LET newState == [state EXCEPT !.error = error, !.stage = getPreviousStage(state.stage)]
  IN [ok |-> TRUE, err |-> NULL, state |-> newState,
      file |-> saveState(newState, f, now).file]

\* faulty variant: recording the error loses the scene list
setError_dropsScenes(state, error, f, now) ==
  LET newState == [state EXCEPT !.error = error, !.scenes = << >>]
  IN [ok |-> TRUE, err |-> NULL, state |-> newState,
      file |-> saveState(newState, f, now).file]

\* setError(state, error)
setError(state, error, f, now) ==
  LET newState == [state EXCEPT !.error = error]
      saved == saveState(newState, f, now)
  IN IF ~saved.ok
       THEN [ok |-> FALSE, err |-> saved.err, state |-> state, file |-> f]
       ELSE [ok |-> TRUE, err |-> NULL, state |-> newState, file |-> saved.file]

\* validation helpers of the stage handlers: the error thrown, or NULL
validateHasTrend(state) ==
  IF state.trend = NULL THEN "State is missing required trend data" ELSE NULL

\* faulty variant: an empty scene sequence is let through
validateHasScenes_lenient(state) == NULL

validateHasScenes(state) ==
  IF Len(state.scenes) = 0 THEN "State is missing required scenes data" ELSE NULL

validateTrendQualityPassed(state) ==
  IF state.trendQuality = NoQuality \/ ~state.trendQuality.passesThreshold
    THEN "Trend did not pass quality gate" ELSE NULL

\* ------------------------------------------------------------------------
\* Agents (the environment): what a call can return
\* ------------------------------------------------------------------------
\* assessTrendQuality: the validated model output with passesThreshold
\* overridden by the threshold and a default rejection reason
assessTrendQuality(rawScore, rawPasses, rawReason) ==
  LET passes == rawScore >= QUALITY_THRESHOLD
  IN [ trendQuality |->
        [ overallScore |-> rawScore,
          passesThreshold |-> passes,
          rejectionReason |->
            IF ~passes /\ rawReason = NULL
              THEN "Overall score " \o ToString(rawScore) \o " below threshold "
                     \o ToString(QUALITY_THRESHOLD)
              ELSE rawReason ] ]

\* faulty variant: the retry keeps the seed
perturbSeed_unchanged(currentSeed, attempts) == currentSeed

\* seed of the next synthesis attempt after a rejection
perturbSeed(currentSeed, attempts) == currentSeed + 1000 + attempts

sceneIdFor(i) == "scene_" \o (IF i < 10 THEN "0" ELSE "") \o ToString(i)

RawScene(id, level) == [sceneId |-> id, intent |-> "intent of " \o id, absurdityLevel |-> level]

\* raw planner outputs: levels per position, with the identifiers the model gave
RawPlans ==
  { [globalContinuity |-> "warm soft light",
     scenes |-> [i \in 1..4 |-> RawScene(sceneIdFor(i), 2 * i)]],
    [globalContinuity |-> "warm soft light",
     scenes |-> [i \in 1..3 |-> RawScene(sceneIdFor(i), 3 * i)]],
    [globalContinuity |-> "warm soft light",
     scenes |-> [i \in 1..4 |-> RawScene(sceneIdFor(i), IF i = 3 THEN 4 ELSE 2 * i)]],
    [globalContinuity |-> "warm soft light",
     scenes |-> [i \in 1..4 |-> RawScene(sceneIdFor(IF i = 4 THEN 5 ELSE i), 2 * i)]] }

\* the Scene objects made of the raw scenes (no optional field yet)
sceneObjects(rawScenes) ==
  [i \in 1..Len(rawScenes) |->
     [ sceneId |-> rawScenes[i].sceneId,
       intent |-> rawScenes[i].intent,
       absurdityLevel |-> rawScenes[i].absurdityLevel,
       visualPrompt |-> UNDEF,
       continuityConstraints |-> UNDEF,
       conceptImagePath |-> UNDEF,
       videoClipPath |-> UNDEF,
       continuityFramePath |-> UNDEF ]]

\* faulty variant: the number of scenes is not checked
EscalationOutputSchema_anyLength(raw) ==
  /\ IsString(raw.globalContinuity)
  /\ \A i \in 1..Len(raw.scenes) :
       /\ IsString(raw.scenes[i].sceneId) /\ raw.scenes[i].sceneId # ""
       /\ IsString(raw.scenes[i].intent) /\ raw.scenes[i].intent # ""
       /\ raw.scenes[i].absurdityLevel >= 1 /\ raw.scenes[i].absurdityLevel <= 10

EscalationOutputSchema(raw) ==
  /\ IsString(raw.globalContinuity)
  /\ Len(raw.scenes) >= 4 /\ Len(raw.scenes) <= 6
  /\ \A i \in 1..Len(raw.scenes) :
       /\ IsString(raw.scenes[i].sceneId) /\ raw.scenes[i].sceneId # ""
       /\ IsString(raw.scenes[i].intent) /\ raw.scenes[i].intent # ""
       /\ raw.scenes[i].absurdityLevel >= 1 /\ raw.scenes[i].absurdityLevel <= 10

\* planEscalation on a raw model output: the delta returned or the error thrown
planEscalation(raw) ==
  IF ~EscalationOutputSchema(raw)
    THEN [ok |-> FALSE, err |-> "Escalation Planner output validation failed"]
  ELSE IF \E i \in 2..Len(raw.scenes) :
            raw.scenes[i].absurdityLevel <= raw.scenes[i - 1].absurdityLevel
    THEN [ok |-> FALSE, err |-> "Absurdity must escalate"]
  ELSE IF \E i \in 1..Len(raw.scenes) : raw.scenes[i].sceneId # sceneIdFor(i)
    THEN [ok |-> FALSE, err |-> "Invalid scene ID"]
  ELSE [ok |-> TRUE, err |-> NULL,
        payload |-> [ scenes |-> sceneObjects(raw.scenes),
                      globalContinuity |-> raw.globalContinuity ]]

\* the keywords of contradictoryPairs that a constraint text includes
wordsIn(value) ==
  CASE value = "warm soft light" -> {"warm", "soft"}
    [] value = "warm soft light, close-up" -> {"warm", "soft"}
    [] value = "cold harsh light" -> {"cold", "harsh"}
    [] OTHER -> {}

contradictoryPairs ==
  { <<"warm", "cold">>, <<"bright", "dark">>, <<"indoor", "outdoor">>,
    <<"natural", "artificial">>, <<"soft", "harsh">> }

\* validateConstraintConsistency: the pairs it logs a warning for
validateConstraintConsistency(scene, global) ==
  { p \in contradictoryPairs :
      \/ p[1] \in wordsIn(global) /\ p[2] \in wordsIn(scene)
      \/ p[2] \in wordsIn(global) /\ p[1] \in wordsIn(scene) }

\* the sceneConstraints the visual prompt model can return
SceneConstraintOutputs == {"warm soft light, close-up", "cold harsh light"}

\* faulty variant: a contradiction is an error
lockSceneVisualsWith_strict(scene, globalContinuity, sceneConstraints) ==
  IF validateConstraintConsistency(sceneConstraints, globalContinuity) # {}
    THEN [ok |-> FALSE, err |-> "Constraint contradiction in " \o scene.sceneId]
    ELSE [ok |-> TRUE, err |-> NULL,
          warnings |-> {},
          payload |-> [ sceneId |-> scene.sceneId,
                        visualPrompt |-> "prompt for " \o scene.sceneId,
                        continuityConstraints |-> sceneConstraints,
                        conceptImagePath |-> "scenes/" \o scene.sceneId \o "_concept.png" ]]

\* lockSceneVisuals once the model output has passed its schema: the delta
\* returned and the warnings logged
lockSceneVisualsWith(scene, globalContinuity, sceneConstraints) ==
  [ ok |-> TRUE, err |-> NULL,
    warnings |-> validateConstraintConsistency(sceneConstraints, globalContinuity),
    payload |-> [ sceneId |-> scene.sceneId,
                  visualPrompt |-> "prompt for " \o scene.sceneId,
                  continuityConstraints |-> sceneConstraints,
                  conceptImagePath |-> "scenes/" \o scene.sceneId \o "_concept.png" ]]

\* lockSceneVisuals: the delta for one scene, constraints in line with the
\* global ones
lockSceneVisuals(scene) ==
  lockSceneVisualsWith(scene, "warm soft light", "warm soft light, close-up").payload

\* generateSceneVideo: the delta for one scene; generatedVideoPath is what the
\* video service returned, frameExtracted whether extractLastFrame succeeded
generateSceneVideo(scene, generatedVideoPath, frameExtracted) ==
  [ sceneId |-> scene.sceneId,
    videoClipPath |-> generatedVideoPath,
    continuityFramePath |->
      IF frameExtracted THEN "scenes/" \o scene.sceneId \o "_continuity_frame.png"
                        ELSE UNDEF ]

\* faulty variant: without a new frame the frame before stays in use
chainedFrame_keepsOld(previousFramePath, result) ==
  IF result.continuityFramePath = UNDEF THEN previousFramePath
                                        ELSE result.continuityFramePath

\* generateAllSceneVideos: previousFramePath after a scene's result
chainedFrame(previousFramePath, result) == result.continuityFramePath

\* what generateVideo can hand back for a scene
VideoPaths(scene) == {"scenes/" \o scene.sceneId \o "_clip.mp4", NONSTRING}

\* validateScenesForVideoGeneration: the error thrown, or NULL
validateScenesForVideoGeneration(scenes) ==
  IF \E i \in 1..Len(scenes) : scenes[i].visualPrompt \in {UNDEF, ""}
    THEN LET i == CHOOSE k \in 1..Len(scenes) :
                    /\ scenes[k].visualPrompt \in {UNDEF, ""}
                    /\ \A j \in 1..(k - 1) : scenes[j].visualPrompt \notin {UNDEF, ""}
         IN "Scene " \o scenes[i].sceneId \o " is missing visual prompt"
    ELSE NULL

\* faulty variant: scenes without a clip are let through
validateScenesHaveClips_lenient(scenes) == NULL

\* the clip check at the head of handleVideoGenerated: the error thrown, or NULL
validateScenesHaveClips(scenes) ==
  IF \E i \in 1..Len(scenes) : scenes[i].videoClipPath \in {UNDEF, ""}
    THEN LET i == CHOOSE k \in 1..Len(scenes) :
                    /\ scenes[k].videoClipPath \in {UNDEF, ""}
                    /\ \A j \in 1..(k - 1) : scenes[j].videoClipPath \notin {UNDEF, ""}
         IN "Scene " \o scenes[i].sceneId \o " is missing video clip"
    ELSE NULL

\* ------------------------------------------------------------------------
\* State of the system
\* ------------------------------------------------------------------------
VARIABLES
  file,       \* content of project.state.json, or NoFile
  clock,      \* the time of the last write
  pc,         \* where the running invocation stands ("idle": none running)
  mem,        \* runPipeline's local `state`
  hst,        \* the running stage handler's local `state`
  err,        \* the error thrown by the handler
  gate,       \* locals of synthesizeTrendWithQualityGate and its result
  deltas,     \* the payloads an agent returned to the handler
  idx,        \* index of the scene / delta being processed
  prevFrame,  \* previousFramePath of generateAllSceneVideos
  runs,       \* invocations started so far
  faults,     \* failures injected so far
  last,       \* the last state-store call and its outcome
  obs         \* what an observer of the running invocation has seen

vars == <<file, clock, pc, mem, hst, err, gate, deltas, idx, prevFrame, runs, faults, last, obs>>

NoState == [none |-> TRUE]
NoDelta == [type |-> "none"]
NoCall == [op |-> "none"]
NoSynthesis == [patternAnalysis |-> NULL, trend |-> NULL]
NoGate == [attempts |-> 0, currentSeed |-> 0, synthesis |-> NoSynthesis, quality |-> NoQuality]

NoObs ==
  [ op |-> "none",          \* runPipeline | runFromStage | resetAndRun
    outcome |-> "none",     \* running | completed | failed
    handler |-> "none",     \* stage whose handler was entered last
    first |-> "none",       \* stage of the first handler this invocation entered
    committed |-> << >>,    \* kinds of the deltas applied by this handler call
    synthSeeds |-> << >>,   \* seed of every synthesizeTrend call of this gate
    rejected |-> 0,         \* assessments below the threshold in this gate
    prevFailed |-> "none",  \* stage in which the previous invocation failed
    faulted |-> FALSE,      \* an agent call of this invocation failed
    target |-> "none",      \* fromStage of a runFromStage invocation
    seed |-> 0,             \* the seed a resetAndRun invocation resets with
    rewound |-> FALSE ]     \* runFromStage has rewound the stage since the state was created

Call(op, state, delta, to, r) ==
  [op |-> op, state |-> state, delta |-> delta, to |-> to, before |-> file,
   ok |-> r.ok, err |-> r.err, result |-> r.state]

Init ==
  /\ file = NoFile
  /\ clock = 0
  /\ pc = "idle"
  /\ mem = NoState
  /\ hst = NoState
  /\ err = NULL
  /\ gate = NoGate
  /\ deltas = << >>
  /\ idx = 0
  /\ prevFrame = UNDEF
  /\ runs = 0
  /\ faults = 0
  /\ last = NoCall
  /\ obs = NoObs

StartObs(op) ==
  [NoObs EXCEPT !.op = op, !.outcome = "running",
                !.prevFailed = IF obs.outcome = "failed" THEN obs.handler ELSE "none",
                !.rewound = obs.rewound /\ op # "resetAndRun"]

locals == <<mem, hst, err, gate, deltas, idx, prevFrame>>

ResetLocals ==
  /\ mem' = NoState /\ hst' = NoState /\ err' = NULL /\ gate' = NoGate
  /\ deltas' = << >> /\ idx' = 0 /\ prevFrame' = UNDEF

\* ------------------------------------------------------------------------
\* Entry points (index.ts main)
\* ------------------------------------------------------------------------
RunPipeline ==
  /\ pc = "idle" /\ runs < MaxRuns
  /\ runs' = runs + 1
  /\ UNCHANGED faults
  /\ pc' = "rp_load"
  /\ obs' = StartObs("runPipeline")
  /\ ResetLocals
  /\ last' = NoCall
  /\ UNCHANGED <<file, clock>>

\* runFromStage up to its call of runPipeline
RunFromStage(fromStage) ==
  /\ pc = "idle" /\ runs < MaxRuns
  /\ runs' = runs + 1
  /\ UNCHANGED faults
  /\ ResetLocals
  /\ last' = NoCall
  /\ \E seed \in Seeds, runId \in RunIds :
       LET loaded == loadState(file, seed, runId, Tick(clock))
           state == [loaded.state EXCEPT !.stage = getPreviousStage(fromStage)]
       IN IF getStageOrder(loaded.state.stage) < getStageOrder(fromStage)
            THEN /\ file' = loaded.file
                 /\ clock' = IF file = NoFile THEN Tick(clock) ELSE clock
                 /\ pc' = "idle"
                 /\ obs' = [StartObs("runFromStage") EXCEPT !.outcome = "failed",
                                                             !.target = fromStage]
            ELSE /\ file' = saveState(state, loaded.file, Tick(clock)).file
                 /\ clock' = Tick(clock)
                 /\ pc' = "rp_load"
                 /\ obs' = [StartObs("runFromStage") EXCEPT !.target = fromStage,
                                                             !.rewound = TRUE]

\* resetAndRun up to its call of runPipeline
ResetAndRun ==
  /\ pc = "idle" /\ runs < MaxRuns
  /\ runs' = runs + 1
  /\ UNCHANGED faults
  /\ ResetLocals
  /\ last' = NoCall
  /\ \E seed \in Seeds, runId \in RunIds :
       /\ file' = resetState(file, seed, runId, Tick(clock)).file
       /\ obs' = [StartObs("resetAndRun") EXCEPT !.seed = seed]
  /\ clock' = Tick(clock)
  /\ pc' = "rp_load"

\* ------------------------------------------------------------------------
\* runPipeline
\* ------------------------------------------------------------------------
RpLoad ==
  /\ pc = "rp_load"
  /\ \E seed \in Seeds, runId \in RunIds :
       LET loaded == loadState(file, seed, runId, Tick(clock))
       IN /\ mem' = loaded.state
          /\ file' = loaded.file
  /\ clock' = IF file = NoFile THEN Tick(clock) ELSE clock
  /\ pc' = "rp_loop"
  /\ last' = NoCall
  /\ UNCHANGED <<hst, err, gate, deltas, idx, prevFrame, runs, faults, obs>>

\* faulty variant: SCRIPTED is given the handler of INIT
STAGE_HANDLERS_initTwice(stage) ==
  CASE stage = "INIT" -> "init_synth"
    [] stage = "SCRIPTED" -> "init_synth"
    [] stage = "VISUALIZED" -> "vis_enter"
    [] stage = "VIDEO_GENERATED" -> "vg_enter"
    [] stage = "ASSEMBLED" -> NULL

\* entry pc of STAGE_HANDLERS[stage]
STAGE_HANDLERS(stage) ==
  CASE stage = "INIT" -> "init_synth"
    [] stage = "SCRIPTED" -> "scr_enter"
    [] stage = "VISUALIZED" -> "vis_enter"
    [] stage = "VIDEO_GENERATED" -> "vg_enter"
    [] stage = "ASSEMBLED" -> NULL

\* faulty variant: the loop goes on in every stage
loopCondition_always(state) == TRUE

\* while (state.stage !== "ASSEMBLED")
loopCondition(state) == state.stage # "ASSEMBLED"

\* the while test, and the call of the stage's handler
RpLoop ==
  /\ pc = "rp_loop"
  /\ last' = NoCall
  /\ IF ~loopCondition(mem)
       THEN /\ pc' = "idle"
            /\ obs' = [obs EXCEPT !.outcome = "completed"]
            /\ UNCHANGED <<hst, gate>>
       ELSE /\ pc' = STAGE_HANDLERS(mem.stage)
            /\ hst' = mem
            /\ gate' = [NoGate EXCEPT !.currentSeed = mem.seed]
            /\ obs' = [obs EXCEPT !.handler = mem.stage,
                                  !.first = IF @ = "none" THEN mem.stage ELSE @,
                                  !.committed = << >>,
                                  !.synthSeeds = << >>,
                                  !.rejected = 0]
  /\ UNCHANGED <<file, clock, mem, err, deltas, idx, prevFrame, runs, faults>>

\* faulty variant: the catch block records the error on the handler's state
RpCatch_handlerState ==
  /\ pc = "rp_catch"
  /\ LET r == setError(hst, err, file, Tick(clock))
     IN /\ file' = r.file
        /\ mem' = r.state
        /\ last' = Call("setError", hst, NoDelta, NULL, r)
  /\ clock' = Tick(clock)
  /\ pc' = "idle"
  /\ obs' = [obs EXCEPT !.outcome = "failed"]
  /\ UNCHANGED <<hst, err, gate, deltas, idx, prevFrame, runs, faults>>

\* the catch block: setError on runPipeline's own `state`, then rethrow
RpCatch ==
  /\ pc = "rp_catch"
  /\ LET r == setError(mem, err, file, Tick(clock))
     IN /\ file' = r.file
        /\ mem' = r.state
        /\ last' = Call("setError", mem, NoDelta, NULL, r)
  /\ clock' = Tick(clock)
  /\ pc' = "idle"
  /\ obs' = [obs EXCEPT !.outcome = "failed"]
  /\ UNCHANGED <<hst, err, gate, deltas, idx, prevFrame, runs, faults>>

\* an agent call of the handler throws
AgentThrows(msg) ==
  /\ faults < MaxFaults
  /\ faults' = faults + 1
  /\ pc' = "rp_catch"
  /\ err' = msg
  /\ obs' = [obs EXCEPT !.faulted = TRUE]
  /\ last' = NoCall

\* state = applyDelta(state, delta) in a handler, then go to `next`
ApplyStep(delta, next) ==
  LET r == applyDelta(hst, delta, file, Tick(clock))
  IN /\ file' = r.file
     /\ clock' = Tick(clock)
     /\ hst' = r.state
     /\ last' = Call("applyDelta", hst, delta, NULL, r)
     /\ pc' = IF r.ok THEN next ELSE "rp_catch"
     /\ err' = IF r.ok THEN err ELSE r.err
     /\ obs' = IF r.ok THEN [obs EXCEPT !.committed = Append(@, delta.type)] ELSE obs

\* state = transitionStage(state, to); return state
TransitionStep(to) ==
  LET r == transitionStage(hst, to, file, Tick(clock))
  IN /\ file' = r.file
     /\ clock' = Tick(clock)
     /\ hst' = r.state
     /\ mem' = IF r.ok THEN r.state ELSE mem
     /\ last' = Call("transitionStage", hst, NoDelta, to, r)
     /\ pc' = IF r.ok THEN "rp_loop" ELSE "rp_catch"
     /\ err' = IF r.ok THEN err ELSE r.err
     /\ UNCHANGED <<gate, deltas, idx, prevFrame, runs, faults, obs>>

\* ------------------------------------------------------------------------
\* handleInit
\* ------------------------------------------------------------------------
\* synthesizeTrendWithQualityGate: attempts++ and the synthesizeTrend call
InitSynthesize ==
  /\ pc = "init_synth"
  /\ gate.attempts < MAX_REGENERATION_ATTEMPTS
  /\ \/ \E s \in Syntheses :
          /\ gate' = [gate EXCEPT !.attempts = @ + 1, !.synthesis = s]
          /\ pc' = "init_assess"
          /\ obs' = [obs EXCEPT !.synthSeeds = Append(@, gate.currentSeed)]
          /\ last' = NoCall
          /\ UNCHANGED <<err, faults>>
     \/ /\ AgentThrows("Trend Synthesizer failed")
        /\ UNCHANGED gate
  /\ UNCHANGED <<file, clock, mem, hst, deltas, idx, prevFrame, runs>>

\* the error synthesizeTrendWithQualityGate throws after its last attempt
GateExhausted ==
  "Failed to generate quality trend after " \o ToString(MAX_REGENERATION_ATTEMPTS)
    \o " attempts. Consider adjusting quality threshold (current: "
    \o ToString(QUALITY_THRESHOLD \div 10) \o "." \o ToString(QUALITY_THRESHOLD % 10) \o ")"

\* the assessTrendQuality call, the threshold test and the seed of the retry
InitAssess ==
  /\ pc = "init_assess"
  /\ \/ /\ \E rawScore \in Scores, rawPasses \in BOOLEAN :
             LET quality == assessTrendQuality(rawScore, rawPasses, NULL)
                 seed == perturbSeed(gate.currentSeed, gate.attempts)
             IN IF quality.trendQuality.passesThreshold
                  THEN /\ gate' = [gate EXCEPT !.quality = quality.trendQuality]
                       /\ pc' = "init_apply_synth"
                       /\ UNCHANGED <<err, obs>>
                  ELSE /\ gate' = [gate EXCEPT !.currentSeed = seed]
                       /\ obs' = [obs EXCEPT
                            !.rejected = @ + 1,
                            !.faulted = @ \/ gate.attempts >= MAX_REGENERATION_ATTEMPTS]
                       /\ IF gate.attempts < MAX_REGENERATION_ATTEMPTS
                            THEN pc' = "init_synth" /\ UNCHANGED err
                            ELSE /\ pc' = "rp_catch"
                                 /\ err' = GateExhausted
        /\ last' = NoCall
        /\ UNCHANGED faults
     \/ /\ AgentThrows("Quality assessment failed")
        /\ UNCHANGED gate
  /\ UNCHANGED <<file, clock, mem, hst, deltas, idx, prevFrame, runs>>

\* faulty variant: the quality delta is skipped
InitApplySynthesized_skipsQuality ==
  /\ pc = "init_apply_synth"
  /\ ApplyStep([type |-> "TREND_SYNTHESIZED", payload |-> gate.synthesis], "init_plan")
  /\ UNCHANGED <<mem, gate, deltas, idx, prevFrame, runs, faults>>

\* state = applyDelta(state, TREND_SYNTHESIZED)
InitApplySynthesized ==
  /\ pc = "init_apply_synth"
  /\ ApplyStep([type |-> "TREND_SYNTHESIZED", payload |-> gate.synthesis],
               "init_apply_quality")
  /\ UNCHANGED <<mem, gate, deltas, idx, prevFrame, runs, faults>>

\* the second applyDelta, validateTrendQualityPassed and validateHasTrend
InitApplyQuality ==
  /\ pc = "init_apply_quality"
  /\ LET delta == [type |-> "TREND_QUALITY_ASSESSED",
                   payload |-> [trendQuality |-> gate.quality]]
         r == applyDelta(hst, delta, file, Tick(clock))
         v == IF validateTrendQualityPassed(r.state) # NULL
                THEN validateTrendQualityPassed(r.state)
                ELSE validateHasTrend(r.state)
     IN /\ file' = r.file
        /\ clock' = Tick(clock)
        /\ hst' = r.state
        /\ last' = Call("applyDelta", hst, delta, NULL, r)
        /\ obs' = IF r.ok THEN [obs EXCEPT !.committed = Append(@, delta.type)] ELSE obs
        /\ pc' = IF r.ok /\ v = NULL THEN "init_plan" ELSE "rp_catch"
        /\ err' = IF ~r.ok THEN r.err ELSE IF v # NULL THEN v ELSE err
  /\ UNCHANGED <<mem, gate, deltas, idx, prevFrame, runs, faults>>

\* the planEscalation call
InitPlanEscalation ==
  /\ pc = "init_plan"
  /\ \/ \E raw \in RawPlans :
          LET r == planEscalation(raw)
          IN /\ r.ok \/ faults < MaxFaults
             /\ faults' = IF r.ok THEN faults ELSE faults + 1
             /\ deltas' = IF r.ok THEN <<r.payload>> ELSE deltas
             /\ pc' = IF r.ok THEN "init_apply_plan" ELSE "rp_catch"
             /\ err' = IF r.ok THEN err ELSE r.err
             /\ obs' = IF r.ok THEN obs ELSE [obs EXCEPT !.faulted = TRUE]
             /\ last' = NoCall
     \/ /\ AgentThrows("Escalation Planner failed")
        /\ UNCHANGED deltas
  /\ UNCHANGED <<file, clock, mem, hst, gate, idx, prevFrame, runs>>

InitApplyPlan ==
  /\ pc = "init_apply_plan"
  /\ ApplyStep([type |-> "ESCALATION_PLANNED", payload |-> deltas[1]], "init_transition")
  /\ UNCHANGED <<mem, gate, deltas, idx, prevFrame, runs, faults>>

InitTransition ==
  /\ pc = "init_transition"
  /\ TransitionStep("SCRIPTED")

\* ------------------------------------------------------------------------
\* handleScripted
\* ------------------------------------------------------------------------
\* the checks at the head of the handler
ScriptedEnter ==
  /\ pc = "scr_enter"
  /\ LET v == IF validateHasTrend(hst) # NULL THEN validateHasTrend(hst)
              ELSE IF validateHasScenes(hst) # NULL THEN validateHasScenes(hst)
              ELSE IF hst.globalContinuity = NULL
                THEN "State is missing global continuity constraints"
              ELSE NULL
     IN /\ pc' = IF v = NULL THEN "scr_lock" ELSE "rp_catch"
        /\ err' = IF v = NULL THEN err ELSE v
  /\ deltas' = << >>
  /\ idx' = 1
  /\ last' = NoCall
  /\ UNCHANGED <<file, clock, mem, hst, gate, prevFrame, runs, faults, obs>>

\* faulty variant: each scene's delta is applied as soon as it is returned
ScriptedLockScene_appliesAtOnce ==
  /\ pc = "scr_lock"
  /\ \/ /\ ApplyStep([type |-> "SCENE_VISUALIZED",
                       payload |-> lockSceneVisuals(hst.scenes[idx])],
                      IF idx < Len(hst.scenes) THEN "scr_lock" ELSE "scr_transition")
        /\ deltas' = Append(deltas, lockSceneVisuals(hst.scenes[idx]))
        /\ idx' = idx + 1
        /\ UNCHANGED faults
     \/ /\ AgentThrows("Visual Locker failed for " \o hst.scenes[idx].sceneId)
        /\ UNCHANGED <<deltas, idx, file, clock, hst>>
  /\ UNCHANGED <<mem, gate, prevFrame, runs>>

\* lockAllVisuals: the lockSceneVisuals call for scene idx
ScriptedLockScene ==
  /\ pc = "scr_lock"
  /\ \/ /\ \E sceneConstraints \in SceneConstraintOutputs :
             LET r == lockSceneVisualsWith(hst.scenes[idx], hst.globalContinuity,
                                           sceneConstraints)
                 odd == IF ~r.ok \/ r.warnings # {} THEN 1 ELSE 0
             IN /\ faults + odd <= MaxFaults
                /\ faults' = faults + odd
                /\ deltas' = IF r.ok THEN Append(deltas, r.payload) ELSE deltas
                /\ idx' = IF ~r.ok THEN idx
                          ELSE IF idx < Len(hst.scenes) THEN idx + 1 ELSE 1
                /\ pc' = IF ~r.ok THEN "rp_catch"
                         ELSE IF idx < Len(hst.scenes) THEN "scr_lock" ELSE "scr_apply"
                /\ err' = IF r.ok THEN err ELSE r.err
        /\ last' = NoCall
        /\ UNCHANGED obs
     \/ /\ AgentThrows("Visual Locker failed for " \o hst.scenes[idx].sceneId)
        /\ UNCHANGED <<deltas, idx>>
  /\ UNCHANGED <<file, clock, mem, hst, gate, prevFrame, runs>>

\* faulty variant: only the first scene's delta is applied
ScriptedApply_firstOnly ==
  /\ pc = "scr_apply"
  /\ ApplyStep([type |-> "SCENE_VISUALIZED", payload |-> deltas[idx]], "scr_transition")
  /\ idx' = idx + 1
  /\ UNCHANGED <<mem, gate, deltas, prevFrame, runs, faults>>

\* faulty variant: the deltas are applied last scene first
ScriptedApply_reversed ==
  /\ pc = "scr_apply"
  /\ ApplyStep([type |-> "SCENE_VISUALIZED", payload |-> deltas[Len(deltas) + 1 - idx]],
               IF idx < Len(deltas) THEN "scr_apply" ELSE "scr_transition")
  /\ idx' = idx + 1
  /\ UNCHANGED <<mem, gate, deltas, prevFrame, runs, faults>>

\* the for loop over visualDeltas: one applyDelta
ScriptedApply ==
  /\ pc = "scr_apply"
  /\ ApplyStep([type |-> "SCENE_VISUALIZED", payload |-> deltas[idx]],
               IF idx < Len(deltas) THEN "scr_apply" ELSE "scr_transition")
  /\ idx' = idx + 1
  /\ UNCHANGED <<mem, gate, deltas, prevFrame, runs, faults>>

ScriptedTransition ==
  /\ pc = "scr_transition"
  /\ TransitionStep("VISUALIZED")

\* ------------------------------------------------------------------------
\* handleVisualized
\* ------------------------------------------------------------------------
VisualizedEnter ==
  /\ pc = "vis_enter"
  /\ LET v == IF validateHasTrend(hst) # NULL THEN validateHasTrend(hst)
              ELSE IF validateScenesForVideoGeneration(hst.scenes) # NULL
                THEN validateScenesForVideoGeneration(hst.scenes)
              ELSE IF hst.globalContinuity = NULL
                THEN "State is missing global continuity constraints"
              ELSE NULL
     IN /\ pc' = IF v # NULL THEN "rp_catch"
                 ELSE IF Len(hst.scenes) = 0 THEN "vis_transition" ELSE "vis_generate"
        /\ err' = IF v = NULL THEN err ELSE v
  /\ deltas' = << >>
  /\ idx' = 1
  /\ prevFrame' = UNDEF
  /\ last' = NoCall
  /\ UNCHANGED <<file, clock, mem, hst, gate, runs, faults, obs>>

\* generateAllSceneVideos: the generateSceneVideo call for scene idx
VisualizedGenerateScene ==
  /\ pc = "vis_generate"
  /\ \/ /\ \E generatedVideoPath \in VideoPaths(hst.scenes[idx]), frameExtracted \in BOOLEAN :
             LET result == generateSceneVideo(hst.scenes[idx], generatedVideoPath, frameExtracted)
                 failed == IF generatedVideoPath = NONSTRING \/ ~frameExtracted THEN 1 ELSE 0
             IN /\ generatedVideoPath = NONSTRING => ~frameExtracted
                /\ faults + failed <= MaxFaults
                /\ faults' = faults + failed
                /\ deltas' = Append(deltas, result)
                /\ prevFrame' = chainedFrame(prevFrame, result)
                /\ obs' = [obs EXCEPT !.faulted = @ \/ generatedVideoPath = NONSTRING]
        /\ idx' = IF idx < Len(hst.scenes) THEN idx + 1 ELSE 1
        /\ pc' = IF idx < Len(hst.scenes) THEN "vis_generate" ELSE "vis_apply"
        /\ last' = NoCall
        /\ UNCHANGED err
     \/ /\ AgentThrows("Video generation failed for " \o hst.scenes[idx].sceneId)
        /\ UNCHANGED <<deltas, idx, prevFrame>>
  /\ UNCHANGED <<file, clock, mem, hst, gate, runs>>

\* the for loop over videoDeltas: one applyDelta
VisualizedApply ==
  /\ pc = "vis_apply"
  /\ ApplyStep([type |-> "SCENE_VIDEO_GENERATED", payload |-> deltas[idx]],
               IF idx < Len(deltas) THEN "vis_apply" ELSE "vis_transition")
  /\ idx' = idx + 1
  /\ UNCHANGED <<mem, gate, deltas, prevFrame, runs, faults>>

VisualizedTransition ==
  /\ pc = "vis_transition"
  /\ TransitionStep("VIDEO_GENERATED")

\* ------------------------------------------------------------------------
\* handleVideoGenerated
\* ------------------------------------------------------------------------
VideoGeneratedEnter ==
  /\ pc = "vg_enter"
  /\ LET v == validateScenesHaveClips(hst.scenes)
     IN /\ pc' = IF v = NULL THEN "vg_assemble" ELSE "rp_catch"
        /\ err' = IF v = NULL THEN err ELSE v
  /\ last' = NoCall
  /\ UNCHANGED <<file, clock, mem, hst, gate, deltas, idx, prevFrame, runs, faults, obs>>

\* the assembleFinalVideo call
VideoGeneratedAssemble ==
  /\ pc = "vg_assemble"
  /\ \/ /\ pc' = "vg_transition"
        /\ last' = NoCall
        /\ UNCHANGED <<err, obs, faults>>
     \/ AgentThrows("Final assembly failed")
  /\ UNCHANGED <<file, clock, mem, hst, gate, deltas, idx, prevFrame, runs>>

VideoGeneratedTransition ==
  /\ pc = "vg_transition"
  /\ TransitionStep("ASSEMBLED")

\* ------------------------------------------------------------------------
\* Specification: the command-line entry points and the pipeline they run
\* ------------------------------------------------------------------------
Step ==
  \/ RpLoad \/ RpLoop \/ RpCatch
  \/ InitSynthesize \/ InitAssess \/ InitApplySynthesized \/ InitApplyQuality
  \/ InitPlanEscalation \/ InitApplyPlan \/ InitTransition
  \/ ScriptedEnter \/ ScriptedLockScene \/ ScriptedApply \/ ScriptedTransition
  \/ VisualizedEnter \/ VisualizedGenerateScene \/ VisualizedApply \/ VisualizedTransition
  \/ VideoGeneratedEnter \/ VideoGeneratedAssemble \/ VideoGeneratedTransition

Next ==
  \/ RunPipeline
  \/ \E fromStage \in StageSchema : RunFromStage(fromStage)
  \/ ResetAndRun
  \/ Step

Spec == Init /\ [][Next]_vars

\* ------------------------------------------------------------------------
\* Direct calls of the exported state-store functions (a caller other than
\* the stage handlers: a test, a script), on the state it has just loaded
\* ------------------------------------------------------------------------
PassingQuality == assessTrendQuality(65, TRUE, NULL).trendQuality
FailingQuality == assessTrendQuality(60, FALSE, NULL).trendQuality

ValidPlan == CHOOSE raw \in RawPlans : planEscalation(raw).ok

SceneStub(id) == [sceneId |-> id]

\* the deltas a caller hands to applyDelta
DeltaInputs ==
  {[type |-> "TREND_SYNTHESIZED", payload |-> s] : s \in Syntheses}
  \cup {[type |-> "TREND_QUALITY_ASSESSED", payload |-> [trendQuality |-> q]] :
          q \in {PassingQuality, FailingQuality}}
  \cup {[type |-> "ESCALATION_PLANNED", payload |-> planEscalation(ValidPlan).payload]}
  \cup {[type |-> "ESCALATION_PLANNED",
         payload |-> [scenes |-> sceneObjects(raw.scenes),
                      globalContinuity |-> raw.globalContinuity]] :
          raw \in {r \in RawPlans : Len(r.scenes) < 4}}
  \cup {[type |-> "SCENE_VISUALIZED", payload |-> lockSceneVisuals(SceneStub(id))] :
          id \in {"scene_01", "scene_09"}}
  \cup {[type |-> "SCENE_VIDEO_GENERATED",
         payload |-> generateSceneVideo(SceneStub(id), path, frame)] :
          id \in {"scene_02", "scene_09"},
          path \in {"scenes/clip.mp4", NONSTRING},
          frame \in BOOLEAN}

\* the states a caller hands to saveState: the loaded one, touched up
StateInputs(state) ==
  { state,
    [state EXCEPT !.error = "note"],
    [state EXCEPT !.stage = "PUBLISHED"],
    [state EXCEPT !.trend = NONSTRING],
    [state EXCEPT !.error = NONSTRING] }

ApiCall ==
  /\ pc = "idle" /\ runs < MaxRuns
  /\ runs' = runs + 1
  /\ obs' = [NoObs EXCEPT !.rewound = obs.rewound]
  /\ ResetLocals
  /\ UNCHANGED <<pc, faults>>

ApiLoadState ==
  /\ ApiCall
  /\ \E seed \in Seeds, runId \in RunIds :
       LET r == loadState(file, seed, runId, Tick(clock))
       IN /\ file' = r.file
          /\ last' = Call("loadState", NoState, NoDelta, NULL, r)
  /\ clock' = IF file = NoFile THEN Tick(clock) ELSE clock

ApiResetState ==
  /\ ApiCall
  /\ \E seed \in Seeds, runId \in RunIds :
       LET r == resetState(file, seed, runId, Tick(clock))
       IN /\ file' = r.file
          /\ last' = Call("resetState", NoState, NoDelta, NULL,
                          [ok |-> TRUE, err |-> NULL, state |-> r.state])
  /\ clock' = Tick(clock)

ApiSaveState ==
  /\ ApiCall
  /\ file # NoFile
  /\ \E state \in StateInputs(file) :
       LET r == saveState(state, file, Tick(clock))
       IN /\ file' = r.file
          /\ last' = Call("saveState", state, NoDelta, NULL,
                          [ok |-> r.ok, err |-> r.err, state |-> NoState])
  /\ clock' = Tick(clock)

ApiApplyDelta ==
  /\ ApiCall
  /\ file # NoFile
  /\ \E delta \in DeltaInputs :
       LET r == applyDelta(file, delta, file, Tick(clock))
       IN /\ r.ok => r.state.regenerationCount <= MaxRegen
          /\ file' = r.file
          /\ last' = Call("applyDelta", file, delta, NULL, r)
  /\ clock' = Tick(clock)

ApiTransitionStage ==
  /\ ApiCall
  /\ file # NoFile
  /\ \E to \in StageSchema :
       LET r == transitionStage(file, to, file, Tick(clock))
       IN /\ file' = r.file
          /\ last' = Call("transitionStage", file, NoDelta, to, r)
  /\ clock' = Tick(clock)

ApiSetError ==
  /\ ApiCall
  /\ file # NoFile
  /\ LET r == setError(file, "note", file, Tick(clock))
     IN /\ file' = r.file
        /\ last' = Call("setError", file, NoDelta, NULL, r)
  /\ clock' = Tick(clock)

\* the state-store functions called directly, and the pipeline
NextApi ==
  \/ ApiLoadState \/ ApiResetState \/ ApiSaveState
  \/ ApiApplyDelta \/ ApiTransitionStage \/ ApiSetError
  \/ RunPipeline
  \/ Step

SpecApi == Init /\ [][NextApi]_vars

\* ------------------------------------------------------------------------
\* The state store on its own: one caller of loadState, saveState and
\* resetState, over a state file that it may find in any condition.
\* mem is the state the caller holds (the last one a call returned to it),
\* hst the state whose saveState wrote the present file (NoState: none).
\* ------------------------------------------------------------------------
PlannedState ==
  [createInitialState(42, "run_a", 0) EXCEPT
     !.patternAnalysis = "analysis_A",
     !.trend = "trend_A",
     !.trendQuality = FailingQuality,
     !.scenes = planEscalation(ValidPlan).payload.scenes,
     !.globalContinuity = planEscalation(ValidPlan).payload.globalContinuity,
     !.stage = "SCRIPTED",
     !.regenerationCount = 1]

\* the record without the given keys
withoutKeys(s, keys) == [k \in DOMAIN s \ keys |-> s[k]]

\* records that pass ProjectStateSchema
AcceptedRecords ==
  { createInitialState(7, "run_b", 0),
    PlannedState,
    [PlannedState EXCEPT !.error = "note"],
    [PlannedState EXCEPT !.error = UNDEF],
    withoutKeys(PlannedState, {"regenerationCount"}) }

\* records that do not
RejectedRecords ==
  { [PlannedState EXCEPT !.stage = "PUBLISHED"],
    [PlannedState EXCEPT !.trend = NONSTRING],
    withoutKeys(PlannedState, {"stage"}),
    withoutKeys(PlannedState, {"scenes", "regenerationCount"}) }

\* what project.state.json can hold when the caller starts
StoredFiles == {NoFile} \cup AcceptedRecords \cup RejectedRecords

InitStore ==
  /\ file \in StoredFiles
  /\ clock = 0
  /\ pc = "idle"
  /\ mem = NoState
  /\ hst = NoState
  /\ err = NULL
  /\ gate = NoGate
  /\ deltas = << >>
  /\ idx = 0
  /\ prevFrame = UNDEF
  /\ runs = 0
  /\ faults = 0
  /\ last = NoCall
  /\ obs = NoObs

StoreCall ==
  /\ runs < MaxCalls
  /\ runs' = runs + 1
  /\ UNCHANGED <<pc, err, gate, deltas, idx, prevFrame, faults, obs>>

\* const state = loadState(); the write of a created file may fall in the
\* tick of its creation or in a later one
StoreLoad ==
  /\ StoreCall
  /\ \E seed \in Seeds, runId \in RunIds, written \in {Tick(clock), Tick(Tick(clock))} :
       LET r == loadStateAt(file, seed, runId, Tick(clock), written)
       IN /\ file' = r.file
          /\ clock' = IF file = NoFile THEN written ELSE clock
          /\ mem' = IF r.ok THEN r.state ELSE mem
          /\ hst' = IF file = NoFile THEN r.state ELSE hst
          /\ last' = [op |-> "loadState", before |-> file,
                      ok |-> r.ok, err |-> r.err, result |-> r.state]

\* saveState(state), of the state the caller holds or of one it has built
StoreSave ==
  /\ StoreCall
  /\ \E state \in AcceptedRecords \cup RejectedRecords \cup ({mem} \ {NoState}) :
       LET r == saveState(state, file, Tick(clock))
       IN /\ file' = r.file
          /\ hst' = IF r.ok THEN state ELSE hst
          /\ last' = [op |-> "saveState", state |-> state, before |-> file,
                      ok |-> r.ok, err |-> r.err]
  /\ clock' = Tick(clock)
  /\ UNCHANGED mem

\* const state = resetState(baseDir, seed)
StoreReset ==
  /\ StoreCall
  /\ \E seed \in Seeds, runId \in RunIds :
       LET r == resetState(file, seed, runId, Tick(clock))
       IN /\ file' = r.file
          /\ mem' = r.state
          /\ hst' = r.state
          /\ last' = [op |-> "resetState", seed |-> seed, before |-> file,
                      ok |-> TRUE, err |-> NULL, result |-> r.state]
  /\ clock' = Tick(clock)

NextStore == StoreLoad \/ StoreSave \/ StoreReset

SpecStore == InitStore /\ [][NextStore]_vars

\* ------------------------------------------------------------------------
\* The video generator on its own: generateAllSceneVideos as handleVisualized
\* calls it, under every configuration and with concept images that may be
\* missing from the disk.  hst is the state of the calling handler, gate the
\* configuration and the image files on disk, last the last request sent to
\* generateVideo.
\* ------------------------------------------------------------------------
\* faulty variant: the scene's own concept image is preferred to the frame
imagePath_conceptFirst(scene, previousFramePath, useImageToVideo, onDisk) ==
  IF useImageToVideo /\ scene.conceptImagePath \notin {UNDEF, ""}
       /\ scene.conceptImagePath \in onDisk
    THEN scene.conceptImagePath
    ELSE IF previousFramePath \notin {UNDEF, ""} /\ previousFramePath \in onDisk
      THEN previousFramePath
      ELSE UNDEF

\* generateSceneVideo: the image handed to generateVideo, UNDEF when none
imagePath(scene, previousFramePath, useImageToVideo, onDisk) ==
  IF previousFramePath \notin {UNDEF, ""} /\ previousFramePath \in onDisk
    THEN previousFramePath
    ELSE IF useImageToVideo /\ scene.conceptImagePath \notin {UNDEF, ""}
              /\ scene.conceptImagePath \in onDisk
      THEN scene.conceptImagePath
      ELSE UNDEF

\* the scenes as handleScripted leaves them
lockedScenes(scenes) ==
  [i \in 1..Len(scenes) |->
     [scenes[i] EXCEPT
        !.visualPrompt = lockSceneVisuals(scenes[i]).visualPrompt,
        !.continuityConstraints = lockSceneVisuals(scenes[i]).continuityConstraints,
        !.conceptImagePath = lockSceneVisuals(scenes[i]).conceptImagePath]]

\* a state on which handleVisualized runs
VisualizedState ==
  [PlannedState EXCEPT !.scenes = lockedScenes(PlannedState.scenes),
                       !.trendQuality = PassingQuality,
                       !.regenerationCount = 0,
                       !.stage = "VISUALIZED"]

ConceptImages == {VisualizedState.scenes[i].conceptImagePath : i \in 1..Len(VisualizedState.scenes)}

\* generateAllSceneVideos is called
GenerateAllStart ==
  /\ pc = "idle" /\ runs < MaxRuns
  /\ runs' = runs + 1
  /\ pc' = "vis_generate"
  /\ hst' = VisualizedState
  /\ \E useImageToVideo \in BOOLEAN, onDisk \in SUBSET ConceptImages :
       gate' = [useImageToVideo |-> useImageToVideo, onDisk |-> onDisk]
  /\ deltas' = << >>
  /\ idx' = 1
  /\ prevFrame' = UNDEF
  /\ last' = NoCall
  /\ UNCHANGED <<file, clock, mem, err, faults, obs>>

\* one turn of its loop: generateSceneVideo for scene idx
GenerateAllScene ==
  /\ pc = "vis_generate"
  /\ \E frameExtracted \in BOOLEAN :
       LET scene == hst.scenes[idx]
           result == generateSceneVideo(scene, "scenes/" \o scene.sceneId \o "_clip.mp4",
                                        frameExtracted)
       IN /\ last' = [op |-> "generateVideo", sceneIndex |-> idx,
                       imagePath |-> imagePath(scene, prevFrame,
                                               gate.useImageToVideo, gate.onDisk)]
          /\ deltas' = Append(deltas, result)
          /\ prevFrame' = chainedFrame(prevFrame, result)
          /\ gate' = [gate EXCEPT !.onDisk =
                        IF frameExtracted THEN @ \cup {result.continuityFramePath} ELSE @]
  /\ idx' = IF idx < Len(hst.scenes) THEN idx + 1 ELSE 1
  /\ pc' = IF idx < Len(hst.scenes) THEN "vis_generate" ELSE "idle"
  /\ UNCHANGED <<file, clock, mem, hst, err, runs, faults, obs>>

NextVideo == GenerateAllStart \/ GenerateAllScene

SpecVideo == Init /\ [][NextVideo]_vars

\* ------------------------------------------------------------------------
\* runPipeline on a state file that it did not write itself: one that passes
\* the schema but was left in a stage without the data of that stage (by
\* direct calls of transitionStage, or by hand)
\* ------------------------------------------------------------------------
\* the scenes as handleVisualized leaves them
clippedScenes(scenes) ==
  [i \in 1..Len(scenes) |->
     [scenes[i] EXCEPT
        !.videoClipPath =
           generateSceneVideo(scenes[i], "scenes/" \o scenes[i].sceneId \o "_clip.mp4", TRUE).videoClipPath,
        !.continuityFramePath =
           generateSceneVideo(scenes[i], "scenes/" \o scenes[i].sceneId \o "_clip.mp4", TRUE).continuityFramePath]]

\* a state on which handleScripted runs
ScriptedState == [VisualizedState EXCEPT !.scenes = PlannedState.scenes, !.stage = "SCRIPTED"]

\* a state on which handleVideoGenerated runs
VideoGeneratedState ==
  [VisualizedState EXCEPT !.scenes = clippedScenes(VisualizedState.scenes),
                          !.stage = "VIDEO_GENERATED"]

\* state files that pass the schema, with and without the data of their stage
ResumeFiles ==
  { NoFile,
    ScriptedState,
    [ScriptedState EXCEPT !.trend = NULL],
    [ScriptedState EXCEPT !.scenes = << >>],
    [ScriptedState EXCEPT !.globalContinuity = NULL],
    [ScriptedState EXCEPT !.scenes = << >>, !.globalContinuity = NULL],
    VisualizedState,
    [VisualizedState EXCEPT !.scenes[2].visualPrompt = UNDEF],
    [VisualizedState EXCEPT !.trend = NULL],
    VideoGeneratedState,
    [VideoGeneratedState EXCEPT !.scenes[3].videoClipPath = UNDEF],
    [VideoGeneratedState EXCEPT !.scenes[1].videoClipPath = ""] }

InitResume ==
  /\ file \in ResumeFiles
  /\ clock = 0
  /\ pc = "idle"
  /\ mem = NoState
  /\ hst = NoState
  /\ err = NULL
  /\ gate = NoGate
  /\ deltas = << >>
  /\ idx = 0
  /\ prevFrame = UNDEF
  /\ runs = 0
  /\ faults = 0
  /\ last = NoCall
  /\ obs = NoObs

NextResume == RunPipeline \/ Step

SpecResume == InitResume /\ [][NextResume]_vars

\* ------------------------------------------------------------------------
\* Two runPipeline invocations on one state file. The variables pc .. prevFrame
\* and the bookkeeping of obs belong to the invocation that takes the next
\* step; the locals of the other one are kept in obs.other, and a switch of
\* the two can happen between any two steps (every step ends at an await or
\* at a synchronous file write).
\* ------------------------------------------------------------------------
MaxSwitches == 2

\* the state files the two invocations find: the INIT handler is behind
TwoFiles == {ScriptedState, VisualizedState}

RunningObs == [NoObs EXCEPT !.op = "runPipeline", !.outcome = "running"]

\* the bookkeeping of one invocation, without the other invocation's locals
ownObs(o) == [k \in DOMAIN NoObs |-> o[k]]

withOther(o, parked, switches) ==
  [k \in DOMAIN NoObs \cup {"other", "switches"} |->
     IF k = "other" THEN parked ELSE IF k = "switches" THEN switches ELSE o[k]]

\* the locals of an invocation that has just been called
FreshLocals ==
  [pc |-> "rp_load", mem |-> NoState, hst |-> NoState, err |-> NULL, gate |-> NoGate,
   deltas |-> << >>, idx |-> 0, prevFrame |-> UNDEF, obs |-> RunningObs]

InitTwo ==
  /\ file \in TwoFiles
  /\ clock = 0
  /\ pc = "rp_load"
  /\ mem = NoState
  /\ hst = NoState
  /\ err = NULL
  /\ gate = NoGate
  /\ deltas = << >>
  /\ idx = 0
  /\ prevFrame = UNDEF
  /\ runs = 2
  /\ faults = 0
  /\ last = NoCall
  /\ obs = withOther(RunningObs, FreshLocals, 0)

\* the other invocation goes on from where it stood
Switch ==
  /\ obs.switches < MaxSwitches
  /\ obs.other.pc # "idle"
  /\ pc' = obs.other.pc
  /\ mem' = obs.other.mem
  /\ hst' = obs.other.hst
  /\ err' = obs.other.err
  /\ gate' = obs.other.gate
  /\ deltas' = obs.other.deltas
  /\ idx' = obs.other.idx
  /\ prevFrame' = obs.other.prevFrame
  /\ obs' = withOther(obs.other.obs,
                      [pc |-> pc, mem |-> mem, hst |-> hst, err |-> err, gate |-> gate,
                       deltas |-> deltas, idx |-> idx, prevFrame |-> prevFrame,
                       obs |-> ownObs(obs)],
                      obs.switches + 1)
  /\ last' = NoCall
  /\ UNCHANGED <<file, clock, runs, faults>>

\* the steps of an invocation that finds a state of stage SCRIPTED or later
StepFromScripted ==
  \/ RpLoad \/ RpLoop \/ RpCatch
  \/ ScriptedEnter \/ ScriptedLockScene \/ ScriptedApply \/ ScriptedTransition
  \/ VisualizedEnter \/ VisualizedGenerateScene \/ VisualizedApply \/ VisualizedTransition
  \/ VideoGeneratedEnter \/ VideoGeneratedAssemble \/ VideoGeneratedTransition

NextTwo == StepFromScripted \/ Switch

SpecTwo == InitTwo /\ [][NextTwo]_vars

\* ------------------------------------------------------------------------
\* Properties
\* ------------------------------------------------------------------------
\* a state as a reader of the file compares it: without the write stamp
Persisted(state) == [state EXCEPT !.updatedAt = 0]

\* an invocation has ended by rethrowing a stage handler's error
HandlerFailed == pc = "idle" /\ obs.outcome = "failed" /\ obs.handler # "none"

\* number of scenes of a state that carry a video clip
ClipCount(state) ==
  Cardinality({i \in 1..Len(state.scenes) : state.scenes[i].videoClipPath # UNDEF})

\* C1: when a handler throws after it has applied deltas, the file left by
\* runPipeline holds every delta applied before the throw, the stage of the
\* handler's entry and the error message.
C1_FailureKeepsAppliedDeltas ==
  (HandlerFailed /\ Len(obs.committed) > 0) =>
     /\ Persisted(file) = Persisted([hst EXCEPT !.error = err])
     /\ file.stage = obs.handler
     /\ file.error = err

\* C4: a step of the pipeline changes the persisted stage only to its single
\* successor; an earlier stage is written only by runFromStage's rewind and
\* by the reset, before the pipeline starts.
C4_StageOnlyAdvances ==
  [][ (file # NoFile /\ file' # NoFile /\ file'.stage # file.stage) =>
        IF pc = "idle"
          THEN /\ obs'.op \in {"runFromStage", "resetAndRun"}
               /\ getStageOrder(file'.stage) < getStageOrder(file.stage)
          ELSE getStageOrder(file'.stage) = getStageOrder(file.stage) + 1 ]_vars

\* a resumed invocation has moved the file past the stage that failed
C4_Witness ==
  /\ obs.op = "runPipeline"
  /\ obs.prevFailed = "SCRIPTED"
  /\ file.stage = "VIDEO_GENERATED"

C9_RegenerationCountIsRejections ==
  (pc = "rp_loop" /\ obs.handler = "INIT" /\ mem.stage = "SCRIPTED") =>
     file.regenerationCount = mem.regenerationCount
       /\ mem.regenerationCount = obs.rejected

Distinct(seq) == \A i, j \in 1..Len(seq) : i # j => seq[i] # seq[j]

\* C10: when every assessment is rejected the gate gives up after exactly
\* MAX_REGENERATION_ATTEMPTS synthesis calls, each with a seed no earlier call
\* had; the handler fails, the stage stays INIT and no rejected trend is kept.
C10_GateGivesUp ==
  /\ obs.rejected <= MAX_REGENERATION_ATTEMPTS
  /\ Distinct(obs.synthSeeds)
  /\ err = GateExhausted => obs.rejected = MAX_REGENERATION_ATTEMPTS
  /\ obs.rejected = MAX_REGENERATION_ATTEMPTS =>
        /\ Len(obs.synthSeeds) = MAX_REGENERATION_ATTEMPTS
        /\ pc \in {"rp_catch", "idle"}
        /\ pc = "idle" => obs.outcome = "failed"
        /\ file.stage = "INIT"
        /\ file.trend = mem.trend
        /\ file.trendQuality = mem.trendQuality
        /\ file.trendQuality = NoQuality \/ file.trendQuality.passesThreshold

C10_Witness ==
  /\ HandlerFailed
  /\ obs.rejected = MAX_REGENERATION_ATTEMPTS
  /\ Len(obs.synthSeeds) = MAX_REGENERATION_ATTEMPTS

\* the checks at the head of the handler of the state's stage all pass
HandlerPreconditions(state) ==
  CASE state.stage = "SCRIPTED" ->
         /\ validateHasTrend(state) = NULL
         /\ validateHasScenes(state) = NULL
         /\ state.globalContinuity # NULL
    [] state.stage = "VISUALIZED" ->
         /\ validateHasTrend(state) = NULL
         /\ validateScenesForVideoGeneration(state.scenes) = NULL
         /\ state.globalContinuity # NULL
    [] state.stage = "VIDEO_GENERATED" -> validateScenesHaveClips(state.scenes) = NULL
    [] OTHER -> TRUE

\* a runPipeline invocation that follows one that failed in a handler
Resumed == obs.op = "runPipeline" /\ obs.prevFailed # "none"

\* an upper bound on the steps the running invocation still takes
StepsLeft ==
  LET base(stage) == (Len(STAGE_ORDER) - getStageOrder(stage)) * 100
  IN CASE pc = "idle" -> 0
       [] pc = "rp_catch" -> 1
       [] pc = "rp_load" -> 1000
       [] pc = "rp_loop" -> base(mem.stage) + 99
       [] pc = "init_synth" -> base(hst.stage) + 60 - 2 * gate.attempts
       [] pc = "init_assess" -> base(hst.stage) + 61 - 2 * gate.attempts
       [] pc = "init_apply_synth" -> base(hst.stage) + 40
       [] pc = "init_apply_quality" -> base(hst.stage) + 39
       [] pc = "init_plan" -> base(hst.stage) + 38
       [] pc = "init_apply_plan" -> base(hst.stage) + 37
       [] pc \in {"scr_enter", "vis_enter", "vg_enter"} -> base(hst.stage) + 98
       [] pc \in {"scr_lock", "vis_generate"} -> base(hst.stage) + 80 - idx
       [] pc \in {"scr_apply", "vis_apply"} -> base(hst.stage) + 60 - idx
       [] pc = "vg_assemble" -> base(hst.stage) + 50
       [] pc \in {"init_transition", "scr_transition", "vis_transition", "vg_transition"} ->
            base(hst.stage) + 10

\* C8: after runPipeline has failed in a stage the file is in that stage and
\* passes the checks of its handler; the next runPipeline enters that same
\* handler first and fails only when an agent call fails; it always can take
\* a step, each step brings its end nearer, and when no agent call failed it
\* ends with the file in ASSEMBLED.
C8_ResumeAfterFailure ==
  /\ []( /\ HandlerFailed => (file.stage = obs.handler /\ HandlerPreconditions(file))
         /\ (Resumed /\ obs.first # "none") => obs.first = obs.prevFailed
         /\ (Resumed /\ pc # "idle") => (StepsLeft > 0 /\ ENABLED Step)
         /\ (Resumed /\ pc = "idle" /\ ~obs.faulted) =>
               (obs.outcome = "completed" /\ file.stage = "ASSEMBLED") )
  /\ [][Resumed' => StepsLeft' < StepsLeft \/ pc = "idle"]_vars

\* a resumed run went from the stage that failed to the end without a fault
C8_Witness ==
  /\ Resumed /\ obs.prevFailed = "SCRIPTED" /\ obs.first = "SCRIPTED"
  /\ ~obs.faulted
  /\ pc = "idle" /\ obs.outcome = "completed" /\ file.stage = "ASSEMBLED"

\* the stage each kind of delta belongs to
RequiredStage(type) ==
  CASE type \in {"TREND_SYNTHESIZED", "TREND_QUALITY_ASSESSED", "ESCALATION_PLANNED"} -> "INIT"
    [] type = "SCENE_VISUALIZED" -> "SCRIPTED"
    [] type = "SCENE_VIDEO_GENERATED" -> "VISUALIZED"

\* C2: applyDelta on a state whose stage is not the one the delta's kind
\* belongs to throws an error naming the kind and the current stage, and the
\* file is left exactly as it was.
C2_WrongStageRejected ==
  (last.op = "applyDelta" /\ last.state.stage # RequiredStage(last.delta.type)) =>
     /\ ~last.ok
     /\ last.err = "Cannot apply " \o last.delta.type \o " in stage " \o last.state.stage
     /\ file = last.before

C2_Witness ==
  /\ last.op = "applyDelta"
  /\ last.delta.type = "SCENE_VISUALIZED"
  /\ last.state.stage = "VISUALIZED"
  /\ ~last.ok

\* C3: transitionStage(state, to) succeeds exactly when `to` is the stage
\* right after state.stage; every other pair throws the invalid-transition
\* error and leaves the file as it was.
C3_OnlySuccessorTransition ==
  last.op = "transitionStage" =>
     /\ last.ok <=> getStageOrder(last.to) = getStageOrder(last.state.stage) + 1
     /\ last.ok => (file.stage = last.to /\ last.result.stage = last.to)
     /\ ~last.ok =>
          /\ last.err = "Invalid stage transition: " \o last.state.stage \o " -> " \o last.to
          /\ file = last.before

C3_Witness ==
  /\ last.op = "transitionStage"
  /\ last.state.stage = "SCRIPTED"
  /\ last.to = "VIDEO_GENERATED"
  /\ ~last.ok

C6_ReturnedStateIsPersisted ==
  (last.op = "applyDelta" /\ last.ok) =>
     /\ Persisted(file) = Persisted(last.result)
     /\ ProjectStateSchema(file)

C6_Witness ==
  /\ last.op = "applyDelta" /\ last.ok
  /\ last.delta.type = "SCENE_VIDEO_GENERATED"
  /\ Persisted(last.result) # Persisted(last.state)

\* C11: TREND_QUALITY_ASSESSED applied in stage INIT sets trendQuality to the
\* carried result, adds exactly 1 to regenerationCount when the result does
\* not pass the threshold and leaves it as it was when it passes; no other
\* field changes.
C11_QualityDeltaEffect ==
  (last.op = "applyDelta" /\ last.delta.type = "TREND_QUALITY_ASSESSED"
     /\ last.state.stage = "INIT") =>
     LET q == last.delta.payload.trendQuality
     IN /\ last.ok
        /\ last.result.trendQuality = q
        /\ ~q.passesThreshold => last.result.regenerationCount = last.state.regenerationCount + 1
        /\ q.passesThreshold => last.result.regenerationCount = last.state.regenerationCount
        /\ \A k \in DOMAIN last.state \ {"trendQuality", "regenerationCount"} :
              last.result[k] = last.state[k]
        /\ Persisted(file) = Persisted(last.result)

\* a rejected assessment has been applied: the count went from 0 to 1
C11_Witness ==
  /\ last.op = "applyDelta" /\ last.ok
  /\ last.delta.type = "TREND_QUALITY_ASSESSED"
  /\ ~last.delta.payload.trendQuality.passesThreshold
  /\ last.result.regenerationCount = 1

PerSceneKinds == {"SCENE_VISUALIZED", "SCENE_VIDEO_GENERATED"}

\* C12: a per-scene delta changes, on the scene its sceneId names, only the
\* fields its payload carries; a field the payload does not carry (such as
\* continuityFramePath of a video delta without a frame), every other scene,
\* the scene order and every top-level field stay as they were.
C12_PerSceneDeltaFrame ==
  (last.op = "applyDelta" /\ last.ok /\ last.delta.type \in PerSceneKinds) =>
     LET payload == last.delta.payload
         i == findIndex(last.state.scenes, payload.sceneId)
         carried == {k \in DOMAIN payload \ {"sceneId"} : payload[k] # UNDEF}
     IN /\ \A k \in DOMAIN last.state \ {"scenes"} : last.result[k] = last.state[k]
        /\ Len(last.result.scenes) = Len(last.state.scenes)
        /\ \A j \in 1..Len(last.state.scenes) :
              j # i => last.result.scenes[j] = last.state.scenes[j]
        /\ \A k \in DOMAIN last.state.scenes[i] :
              last.result.scenes[i][k] =
                 IF k \in carried THEN payload[k] ELSE last.state.scenes[i][k]

\* C13: a per-scene delta applied in its own stage whose sceneId no scene of
\* the state has throws the scene-not-found error and leaves the file as it
\* was.
C13_UnknownSceneRejected ==
  (last.op = "applyDelta" /\ last.delta.type \in PerSceneKinds
     /\ last.state.stage = RequiredStage(last.delta.type)
     /\ \A i \in 1..Len(last.state.scenes) :
           last.state.scenes[i].sceneId # last.delta.payload.sceneId) =>
     /\ ~last.ok
     /\ last.err = "Scene not found: " \o last.delta.payload.sceneId
     /\ file = last.before

\* a video delta for a scene the planned state does not have
C13_Witness ==
  /\ last.op = "applyDelta" /\ ~last.ok
  /\ last.delta.type = "SCENE_VIDEO_GENERATED"
  /\ last.state.stage = "VISUALIZED"
  /\ Len(last.state.scenes) > 0
  /\ last.delta.payload.sceneId = "scene_09"

\* stage a comes before stage b in the fixed order
Before(a, b) ==
  \E i, j \in 1..Len(STAGE_ORDER) : STAGE_ORDER[i] = a /\ STAGE_ORDER[j] = b /\ i < j

\* a runFromStage call on an existing state file
RunFromStageCalled == pc = "idle" /\ runs' = runs + 1 /\ obs'.op = "runFromStage" /\ file # NoFile

\* C14: when runFromStage(target) passes its guard, the state it saves before
\* it resumes the loop differs from the file only in stage and updatedAt:
\* the stage is the predecessor of target (INIT for target INIT), and trend,
\* trendQuality, patternAnalysis, scenes, globalContinuity and
\* regenerationCount are as they were.
C14_RewindChangesOnlyStage ==
  [][ (RunFromStageCalled /\ pc' = "rp_load") =>
        /\ \A k \in DOMAIN file \ {"stage", "updatedAt"} : file'[k] = file[k]
        /\ IF obs'.target = "INIT"
             THEN file'.stage = "INIT"
             ELSE canTransition(file'.stage, obs'.target) ]_vars

\* a finished project rewound for a rerun from VISUALIZED
C14_Witness ==
  /\ pc = "rp_load" /\ obs.op = "runFromStage" /\ obs.target = "VISUALIZED"
  /\ file.stage = "SCRIPTED"
  /\ file.trend # NULL /\ ClipCount(file) = Len(file.scenes) /\ Len(file.scenes) > 0

\* C15: runFromStage(target) on an existing state whose stage comes before
\* target fails without entering a handler and leaves the file as it was;
\* no runFromStage call moves the stage forward.
C15_NoFastForward ==
  [][ RunFromStageCalled =>
        IF Before(file.stage, obs'.target)
          THEN /\ file' = file
               /\ pc' = "idle"
               /\ obs'.outcome = "failed" /\ obs'.handler = "none"
          ELSE ~Before(file.stage, file'.stage) ]_vars

\* refused: a project that failed in SCRIPTED asked to rerun from VIDEO_GENERATED
C15_Witness ==
  /\ pc = "idle" /\ obs.op = "runFromStage" /\ obs.outcome = "failed"
  /\ obs.target = "VIDEO_GENERATED"
  /\ file # NoFile /\ file.stage = "SCRIPTED"

\* C16: a rerun from a named stage S does only the work listed for S and
\* calls no agent of an earlier stage: the first handler it enters is the
\* one of S (from SCRIPTED no trend synthesis or planning, from VISUALIZED
\* no visual locking, from VIDEO_GENERATED no video generation).
C16_RerunStartsAtNamedStage ==
  (obs.op = "runFromStage" /\ obs.handler # "none"
     /\ obs.target \in {"SCRIPTED", "VISUALIZED", "VIDEO_GENERATED"}) =>
     /\ obs.first = obs.target
     /\ ~Before(obs.handler, obs.target)

\* the reset: resetAndRun's resetState, before the pipeline starts
ResetStep == pc = "idle" /\ obs'.op = "resetAndRun"

\* C17: between two resets the trend is set once: when the file's trend is
\* not null, no later step of the pipeline (resumed run, runFromStage rerun,
\* later handlers) changes it.
C17_TrendSetOnce ==
  [][ (file # NoFile /\ file.trend # NULL /\ ~ResetStep) => file'.trend = file.trend ]_vars

\* the INIT handler has been entered and has not applied a delta yet
InitEntered == pc \in {"init_synth", "init_assess", "init_apply_synth"}

\* C18 as stated: whenever the INIT handler is entered the trend is null, and
\* every file with stage INIT has trend = null.
C18_InitMeansNoTrend ==
  /\ InitEntered => hst.trend = NULL
  /\ (file # NoFile /\ file.stage = "INIT") => file.trend = NULL

\* C18 amended: the INIT handler is entered with trend = null unless
\* runFromStage has rewound the stage since the state was created or reset;
\* a file with stage INIT carries a trend only after such a rewind or while
\* the INIT handler that has applied TREND_SYNTHESIZED is still running.
C18_InitEntryNoTrendUnlessRewound ==
  /\ (InitEntered /\ ~obs.rewound) => (hst.trend = NULL /\ file.trend = NULL)
  /\ (file # NoFile /\ file.stage = "INIT" /\ file.trend # NULL) =>
        \/ obs.rewound
        \/ /\ obs.handler = "INIT"
           /\ pc \in {"init_apply_quality", "init_plan", "init_apply_plan",
                      "init_transition", "rp_catch"}

\* a run resumed after a failure in INIT enters the INIT handler again
C18_Witness ==
  /\ pc = "init_synth" /\ gate.attempts = 0
  /\ ~obs.rewound /\ obs.prevFailed = "INIT"
  /\ hst.error # NULL

\* the fields of a scene that later stages attach
OptionalSceneFields ==
  {"visualPrompt", "continuityConstraints", "conceptImagePath", "videoClipPath",
   "continuityFramePath"}

\* C19: once ESCALATION_PLANNED has created the scenes, no step but the reset
\* removes, adds or reorders them, and data attached to a scene is not taken
\* away again.
C19_ScenesOnlyEnriched ==
  [][ (file # NoFile /\ Len(file.scenes) > 0 /\ ~ResetStep) =>
        /\ Len(file'.scenes) = Len(file.scenes)
        /\ \A i \in 1..Len(file.scenes) :
              /\ file'.scenes[i].sceneId = file.scenes[i].sceneId
              /\ \A k \in OptionalSceneFields :
                    file.scenes[i][k] # UNDEF => file'.scenes[i][k] # UNDEF ]_vars

\* the scene-sequence invariant
WellFormedScenes(scenes) ==
  /\ Len(scenes) >= 4 /\ Len(scenes) <= 6
  /\ \A i \in 1..(Len(scenes) - 1) : scenes[i].absurdityLevel < scenes[i + 1].absurdityLevel
  /\ \A i \in 1..Len(scenes) : scenes[i].sceneId = sceneIdFor(i)

C21_LoadCreatesInitialState ==
  (last.op = "loadState" /\ last.before = NoFile) =>
    /\ last.ok
    /\ last.result.stage = "INIT"
    /\ last.result.trend = NULL
    /\ last.result.trendQuality = NoQuality
    /\ last.result.patternAnalysis = NULL
    /\ last.result.globalContinuity = NULL
    /\ last.result.scenes = << >>
    /\ last.result.regenerationCount = 0
    /\ last.result.error = NULL
    /\ file # NoFile
    /\ Persisted(file) = Persisted(last.result)
    /\ mem = last.result

\* loadState has just created the file
C21_Witness ==
  /\ last.op = "loadState" /\ last.before = NoFile
  /\ file # NoFile /\ file.stage = "INIT"

\* C22: two calls of loadState in a row, with no call of saveState by the
\* caller in between, return equal states, whether the file existed before
\* the first call or the first call created it.
C22_LoadTwiceSameState ==
  [][(last.op = "loadState" /\ last.ok /\ runs' = runs + 1 /\ last'.op = "loadState")
       => (last'.ok /\ last'.result = last.result)]_vars

\* C23: when the file was written by saveState(s) for a state s that passes
\* the schema, loading it and saving the loaded state leaves the file as
\* saveState(s) left it, apart from the write stamp.
C23_SaveLoadSaveRoundTrip ==
  [][(/\ hst # NoState
      /\ last.op = "loadState" /\ last.ok
      /\ runs' = runs + 1
      /\ last'.op = "saveState" /\ last'.state = mem)
       => (last'.ok /\ Persisted(file') = Persisted(file))]_vars

\* every attribute of the project state is present in the record
HasEveryAttribute(f) ==
  /\ DOMAIN f = StateKeys \cup {"regenerationCount"}
  /\ f.error # UNDEF

\* C24: loadState of an existing file that does not match the project-state
\* shape, a record that lacks an attribute included, fails and leaves the
\* file as it was: no state is returned with a value filled in.
C24_LoadRejectsIncompleteFile ==
  (/\ last.op = "loadState"
   /\ last.before # NoFile
   /\ ~(HasEveryAttribute(last.before) /\ ProjectStateSchema(last.before)))
    => (~last.ok /\ file = last.before)

\* C25: resetAndRun overwrites whatever is persisted with a new initial state
\* (stage INIT, no trend, no quality, no analysis, no continuity, no scenes,
\* no error, regenerationCount 0) that carries the seed it was given, and
\* the loop of runPipeline starts from exactly that state.
C25_ResetStartsFromInitialState ==
  (obs.op = "resetAndRun" /\ obs.handler = "none" /\ pc \in {"rp_load", "rp_loop"}) =>
    /\ file # NoFile
    /\ file.stage = "INIT"
    /\ file.trend = NULL
    /\ file.trendQuality = NoQuality
    /\ file.patternAnalysis = NULL
    /\ file.globalContinuity = NULL
    /\ file.scenes = << >>
    /\ file.error = NULL
    /\ file.regenerationCount = 0
    /\ file.seed = obs.seed
    /\ file.createdAt = clock
    /\ (pc = "rp_loop" => mem = file)

\* a second invocation, resetAndRun, is about to enter its first handler
C25_Witness ==
  /\ obs.op = "resetAndRun" /\ obs.handler = "none" /\ pc = "rp_loop"
  /\ runs = 2 /\ obs.seed = 7

\* C26: every runPipeline / runFromStage invocation runs under a runId of
\* its own: the state a later invocation loads carries a runId different
\* from the one the file held, which is the runId of the attempt before.
C26_RunIdFreshPerAttempt ==
  [][(/\ pc = "rp_load" /\ pc' = "rp_loop"
      /\ obs.op \in {"runPipeline", "runFromStage"}
      /\ runs > 1
      /\ file # NoFile)
       => mem'.runId # file.runId]_vars

\* C27: ASSEMBLED has no handler and no outgoing transition, and runPipeline
\* on a state file in stage ASSEMBLED loads the state, enters no handler,
\* calls no agent, leaves the file as it is and returns the loaded state.
C27_AssembledIsTerminal ==
  /\ [](STAGE_HANDLERS("ASSEMBLED") = NULL /\ VALID_TRANSITIONS("ASSEMBLED") = {})
  /\ [][(pc \in {"rp_load", "rp_loop"} /\ file # NoFile /\ file.stage = "ASSEMBLED")
          => /\ file' = file
             /\ pc' \in {"rp_loop", "idle"}
             /\ obs'.handler = obs.handler
             /\ faults' = faults
             /\ (pc = "rp_load" => mem' = file)
             /\ (pc' = "idle" => /\ obs'.outcome = "completed"
                                 /\ Persisted(mem') = Persisted(file))]_vars

\* a second invocation, runPipeline, found the project assembled and returned
C27_Witness ==
  /\ pc = "idle" /\ runs = 2
  /\ obs.op = "runPipeline" /\ obs.outcome = "completed" /\ obs.first = "none"
  /\ file.stage = "ASSEMBLED"

\* C28: the image handed to video generation for scene N is the continuity
\* frame of scene N-1 whenever that scene has one, and the concept image of
\* scene N itself otherwise (always so for scene 1).
C28_ImageIsFrameOrConcept ==
  last.op = "generateVideo" =>
    LET n == last.sceneIndex
    IN IF n > 1 /\ deltas[n - 1].continuityFramePath # UNDEF
         THEN last.imagePath = deltas[n - 1].continuityFramePath
         ELSE last.imagePath = hst.scenes[n].conceptImagePath

\* C28, as the code has it: the image for scene N is the continuity frame of
\* scene N-1 whenever that scene has one; otherwise it is the concept image
\* of scene N if image-to-video is enabled and that image is on disk, and no
\* image at all if not.
C28_ImageIsFrameOrConceptIfUsable ==
  last.op = "generateVideo" =>
    LET n == last.sceneIndex
        concept == hst.scenes[n].conceptImagePath
    IN IF n > 1 /\ deltas[n - 1].continuityFramePath # UNDEF
         THEN last.imagePath = deltas[n - 1].continuityFramePath
         ELSE IF gate.useImageToVideo /\ concept \in gate.onDisk
           THEN last.imagePath = concept
           ELSE last.imagePath = UNDEF

\* scene 3 was generated from the frame of scene 2, scene 2 from its own
\* concept image because scene 1 left no frame
C28_Witness ==
  /\ last.op = "generateVideo" /\ last.sceneIndex = 3
  /\ last.imagePath = deltas[2].continuityFramePath
  /\ deltas[1].continuityFramePath = UNDEF
  /\ gate.useImageToVideo /\ hst.scenes[2].conceptImagePath \in gate.onDisk

\* C29: when the continuity frame of scene N cannot be extracted the handler
\* goes on: the delta of scene N carries the clip and no frame, scene N+1
\* is generated with no previous frame (not with the frame of scene N-1),
\* and the VISUALIZED handler fails only when an agent call itself failed.
C29_FrameFailureNotFatal ==
  /\ []((pc = "rp_catch" /\ obs.handler = "VISUALIZED") => obs.faulted)
  /\ [][(/\ pc = "vis_generate"
          /\ Len(deltas') = Len(deltas) + 1
          /\ deltas'[idx].continuityFramePath = UNDEF)
          => /\ pc' \in {"vis_generate", "vis_apply"}
             /\ err' = err
             /\ deltas'[idx].sceneId = hst.scenes[idx].sceneId
             /\ deltas'[idx].videoClipPath \in VideoPaths(hst.scenes[idx])
             /\ prevFrame' = UNDEF]_vars

\* the handler has completed although scene 2 left no frame, after scene 1
\* had left one
C29_Witness ==
  /\ pc = "rp_loop" /\ obs.handler = "VISUALIZED" /\ mem.stage = "VIDEO_GENERATED"
  /\ Len(deltas) >= 3
  /\ deltas[1].continuityFramePath # UNDEF
  /\ deltas[2].continuityFramePath = UNDEF
  /\ mem.scenes[2].videoClipPath # UNDEF
  /\ mem.scenes[2].continuityFramePath = UNDEF

\* the deltas of handleInit, in the order of the code
InitDeltaOrder == <<"TREND_SYNTHESIZED", "TREND_QUALITY_ASSESSED", "ESCALATION_PLANNED">>

InInitHandler ==
  pc \in {"init_synth", "init_assess", "init_apply_synth", "init_apply_quality",
          "init_plan", "init_apply_plan", "init_transition"}

\* C30: a run of the INIT handler applies TREND_SYNTHESIZED, then
\* TREND_QUALITY_ASSESSED, then ESCALATION_PLANNED, each one persisted while
\* the stage is still INIT, and then sets the stage to SCRIPTED; when the
\* first synthesis passed the quality gate, the state it leaves has exactly
\* the planner's scenes, regenerationCount 0 and stage SCRIPTED.
C30_InitHandlerOrder ==
  /\ [](InInitHandler =>
          LET n == Len(obs.committed)
          IN /\ n <= Len(InitDeltaOrder)
             /\ obs.committed = SubSeq(InitDeltaOrder, 1, n)
             /\ file.stage = "INIT"
             /\ (n >= 1 => /\ file.trend = gate.synthesis.trend
                           /\ file.patternAnalysis = gate.synthesis.patternAnalysis)
             /\ (n >= 2 => file.trendQuality = gate.quality)
             /\ (n >= 3 => file.scenes = deltas[1].scenes)
             /\ (pc = "init_transition" => n = 3))
  /\ [][(pc = "init_transition" /\ pc' = "rp_loop")
          => /\ file'.stage = "SCRIPTED"
             /\ mem' = hst'
             /\ Persisted(file') = Persisted(mem')
             /\ file'.scenes = deltas[1].scenes
             /\ file'.trend = gate.synthesis.trend
             /\ file'.trendQuality = gate.quality
             /\ (gate.attempts = 1 => file'.regenerationCount = 0)]_vars

\* the INIT handler has returned after a first synthesis that passed
C30_Witness ==
  /\ pc = "rp_loop" /\ obs.handler = "INIT" /\ mem.stage = "SCRIPTED"
  /\ obs.committed = InitDeltaOrder
  /\ gate.attempts = 1
  /\ Len(file.scenes) = Len(deltas[1].scenes) /\ Len(file.scenes) >= 4
  /\ file.regenerationCount = 0

\* the data handleScripted requires is missing from the state
ScriptedDataMissing(state) ==
  state.trend = NULL \/ Len(state.scenes) = 0 \/ state.globalContinuity = NULL

\* the error that names the first missing piece
MissingDataError(state) ==
  IF state.trend = NULL THEN "State is missing required trend data"
  ELSE IF Len(state.scenes) = 0 THEN "State is missing required scenes data"
  ELSE "State is missing global continuity constraints"

\* C31: entered with a null trend, no scenes or a null global continuity,
\* the SCRIPTED handler throws the error naming the missing data before it
\* calls the visual locker and before it applies a delta; the run ends with
\* the stage still SCRIPTED and nothing but the error written.
C31_ScriptedNeedsData ==
  /\ [][(pc = "scr_enter" /\ ScriptedDataMissing(hst))
          => /\ pc' = "rp_catch"
             /\ err' = MissingDataError(hst)
             /\ file' = file
             /\ deltas' = << >>
             /\ obs'.committed = << >>]_vars
  /\ []((pc = "idle" /\ obs.handler = "SCRIPTED" /\ obs.outcome = "failed"
           /\ ScriptedDataMissing(mem))
          => /\ file.stage = "SCRIPTED"
             /\ obs.committed = << >>
             /\ deltas = << >>
             /\ file.error = MissingDataError(mem)
             /\ Persisted(file) = Persisted(mem))

\* a run has failed in the SCRIPTED handler for want of scenes
C31_Witness ==
  /\ pc = "idle" /\ obs.handler = "SCRIPTED" /\ obs.outcome = "failed"
  /\ file.trend # NULL /\ Len(file.scenes) = 0
  /\ file.error = "State is missing required scenes data"

\* some scene of the state has no visual prompt / no video clip
PromptMissing(state) ==
  \E i \in 1..Len(state.scenes) : state.scenes[i].visualPrompt \in {UNDEF, ""}

ClipMissing(state) ==
  \E i \in 1..Len(state.scenes) : state.scenes[i].videoClipPath \in {UNDEF, ""}

\* C32: the VISUALIZED handler throws before any video generation call when
\* a scene has no visual prompt, the VIDEO_GENERATED handler throws before
\* the assembly when a scene has no video clip; in both cases no delta is
\* applied and the run ends in the stage it found.
C32_HandlersNeedSceneData ==
  /\ [][((pc = "vis_enter" /\ PromptMissing(hst)) \/ (pc = "vg_enter" /\ ClipMissing(hst)))
          => /\ pc' = "rp_catch"
             /\ err' # NULL
             /\ file' = file
             /\ obs'.committed = << >>
             /\ faults' = faults]_vars
  /\ []((/\ pc = "idle" /\ obs.outcome = "failed"
          /\ \/ obs.handler = "VISUALIZED" /\ PromptMissing(mem)
             \/ obs.handler = "VIDEO_GENERATED" /\ ClipMissing(mem))
          => /\ file.stage = obs.handler
             /\ obs.committed = << >>
             /\ ~obs.faulted
             /\ file.error = err
             /\ Persisted(file) = Persisted(mem))

\* a run has failed in the VIDEO_GENERATED handler for want of a clip
C32_Witness ==
  /\ pc = "idle" /\ obs.outcome = "failed" /\ obs.handler = "VIDEO_GENERATED"
  /\ ClipMissing(file) /\ file.stage = "VIDEO_GENERATED"
  /\ file.error = "Scene scene_03 is missing video clip"

\* the scene-level constraints contradict the global ones
Contradicts(sceneConstraints, state) ==
  validateConstraintConsistency(sceneConstraints, state.globalContinuity) # {}

\* C33: a contradiction between the constraints returned for a scene and the
\* global ones does not stop the SCRIPTED handler: the delta of the scene is
\* produced, it is applied with the constraints as returned, and the handler
\* fails only when an agent call itself failed.
C33_ContradictionOnlyWarns ==
  /\ []((pc = "rp_catch" /\ obs.handler = "SCRIPTED") => obs.faulted)
  /\ [][(/\ pc = "scr_lock"
          /\ Len(deltas') = Len(deltas) + 1
          /\ Contradicts(deltas'[idx].continuityConstraints, hst))
          => /\ pc' \in {"scr_lock", "scr_apply"}
             /\ err' = err
             /\ deltas'[idx].sceneId = hst.scenes[idx].sceneId]_vars
  /\ [][(pc = "scr_apply" /\ Contradicts(deltas[idx].continuityConstraints, hst))
          => /\ pc' \in {"scr_apply", "scr_transition"}
             /\ file'.scenes[idx].continuityConstraints = deltas[idx].continuityConstraints
             /\ hst'.scenes[idx].continuityConstraints = deltas[idx].continuityConstraints]_vars

\* the SCRIPTED handler has completed with contradicting constraints on scene 2
C33_Witness ==
  /\ pc = "rp_loop" /\ obs.handler = "SCRIPTED" /\ mem.stage = "VISUALIZED"
  /\ Contradicts(file.scenes[2].continuityConstraints, file)
  /\ ~Contradicts(file.scenes[1].continuityConstraints, file)

\* the per-scene delta kind of the handler at this point, "none" elsewhere
PerSceneKind ==
  IF pc \in {"scr_lock", "scr_apply", "scr_transition"} THEN "SCENE_VISUALIZED"
  ELSE IF pc \in {"vis_generate", "vis_apply", "vis_transition"} THEN "SCENE_VIDEO_GENERATED"
  ELSE "none"

\* the first n results are those of scenes 1..n, in that order
InSceneOrder(n) ==
  /\ Len(deltas) >= n
  /\ \A k \in 1..n : deltas[k].sceneId = hst.scenes[k].sceneId

\* C34: in the SCRIPTED and VISUALIZED handlers the agent is called for one
\* scene at a time in scene order, and only once it has returned for the last
\* scene are the deltas applied, one per scene, one at a time, in scene
\* order; the stage transition comes after the last of them.
C34_SequentialInSceneOrder ==
  /\ []((pc \in {"scr_lock", "vis_generate"} /\ Len(hst.scenes) > 0)
          => /\ idx \in 1..Len(hst.scenes)
             /\ Len(deltas) = idx - 1
             /\ InSceneOrder(idx - 1)
             /\ obs.committed = << >>)
  /\ []((pc \in {"scr_apply", "vis_apply"})
          => /\ Len(deltas) = Len(hst.scenes)
             /\ InSceneOrder(Len(hst.scenes))
             /\ idx \in 1..Len(deltas)
             /\ obs.committed = [k \in 1..(idx - 1) |-> PerSceneKind])
  /\ []((pc \in {"scr_transition", "vis_transition"})
          => obs.committed = [k \in 1..Len(hst.scenes) |-> PerSceneKind])
  /\ [][(pc \in {"scr_apply", "vis_apply"} /\ pc' # "rp_catch")
          => /\ last'.op = "applyDelta"
             /\ last'.delta.type = PerSceneKind
             /\ last'.delta.payload.sceneId = hst.scenes[idx].sceneId
             /\ Len(obs'.committed) = idx
             /\ file'.stage = file.stage]_vars

\* the third SCENE_VIDEO_GENERATED delta has just been applied
C34_Witness ==
  /\ pc = "vis_apply" /\ idx = 4
  /\ last.op = "applyDelta" /\ last.delta.payload.sceneId = "scene_03"
  /\ Len(obs.committed) = 3

\* handlers entered so far by the running invocation
HandlersEntered ==
  IF obs.handler = "none" THEN 0
  ELSE getStageOrder(obs.handler) - getStageOrder(obs.first) + 1

\* the invocation never got to runPipeline: runFromStage refused the stage
RefusedRerun == obs.op = "runFromStage" /\ obs.outcome = "failed" /\ obs.handler = "none"

StageData(state) ==
  /\ getStageOrder(state.stage) >= getStageOrder("SCRIPTED") =>
       /\ state.trend # NULL
       /\ state.trendQuality # NoQuality /\ state.trendQuality.passesThreshold
       /\ Len(state.scenes) > 0
       /\ state.globalContinuity # NULL
  /\ getStageOrder(state.stage) >= getStageOrder("VISUALIZED") =>
       \A i \in 1..Len(state.scenes) : state.scenes[i].visualPrompt \notin {UNDEF, ""}
  /\ getStageOrder(state.stage) >= getStageOrder("VIDEO_GENERATED") =>
       \A i \in 1..Len(state.scenes) : state.scenes[i].videoClipPath \notin {UNDEF, ""}

\* C36: in every state reached from a fresh or reset state file by pipeline
\* operations, the state on file, runPipeline's state and the handler's state
\* carry the data of their stage: from SCRIPTED on a trend, a passing
\* trendQuality, scenes and the global continuity; from VISUALIZED on a
\* visual prompt in every scene; from VIDEO_GENERATED on a video clip path in
\* every scene.
C36_StageImpliesData ==
  /\ file # NoFile => StageData(file)
  /\ mem # NoState => StageData(mem)
  /\ hst # NoState => StageData(hst)

\* a rerun from SCRIPTED has locked the scenes again and reached ASSEMBLED
C36_Witness ==
  /\ pc = "idle" /\ obs.op = "runFromStage" /\ obs.outcome = "completed"
  /\ file # NoFile /\ file.stage = "ASSEMBLED"
  /\ Len(file.scenes) > 0

\* positions of runPipeline itself and of the return of a handler
OutsideHandler ==
  pc \in {"idle", "rp_load", "rp_loop", "rp_catch",
          "init_transition", "scr_transition", "vis_transition", "vg_transition"}

\* C37: when a handler throws, runPipeline calls setError with the state it
\* held when it entered the handler: that state is handed to the handler and
\* is not touched while the handler runs, and the catch block writes it with
\* only the error set and the timestamp renewed, whatever the handler had
\* written to the file in the meantime.
C37_CatchWritesEntryState ==
  /\ [][(pc = "rp_loop" /\ pc' # "idle") => (hst' = mem /\ mem' = mem)]_vars
  /\ [][~OutsideHandler => mem' = mem]_vars
  /\ [][pc = "rp_catch" =>
          /\ err # NULL
          /\ file' = [mem EXCEPT !.error = err, !.updatedAt = Tick(clock)]
          /\ mem' = [mem EXCEPT !.error = err]]_vars

\* the INIT handler had written the trend to the file when it failed, and the
\* file left by the catch block has no trend
C37_Witness ==
  /\ pc = "idle" /\ obs.outcome = "failed" /\ last.op = "setError"
  /\ obs.handler = "INIT" /\ Len(obs.committed) > 0
  /\ hst.trend # NULL
  /\ file.trend = NULL /\ file.error # NULL

\* the errors thrown by the per-scene agent calls of the two handlers
SceneAgentErrors(state) ==
  { "Visual Locker failed for " \o state.scenes[i].sceneId : i \in 1..Len(state.scenes) }
    \cup { "Video generation failed for " \o state.scenes[i].sceneId :
              i \in 1..Len(state.scenes) }

\* a per-scene agent call of the SCRIPTED or VISUALIZED handler has thrown
SceneAgentFailed ==
  /\ pc = "rp_catch" /\ obs.handler \in {"SCRIPTED", "VISUALIZED"}
  /\ err \in SceneAgentErrors(hst)

\* C38: in the SCRIPTED and VISUALIZED handlers no per-scene delta is
\* applied before the agent has returned for every scene: when the agent
\* throws on a scene, the handler has committed no delta, the handler's state
\* and the file are those of the handler's entry, although the results of
\* the scenes before it had been produced.
C38_NoDeltaBeforeAllScenes ==
  SceneAgentFailed =>
    /\ obs.committed = << >>
    /\ hst = mem
    /\ [file EXCEPT !.updatedAt = mem.updatedAt] = mem
    /\ Len(deltas) = idx - 1
    /\ file.scenes = mem.scenes

\* the video generator throws on the third scene after two clips were made
C38_Witness ==
  /\ SceneAgentFailed /\ obs.handler = "VISUALIZED"
  /\ idx = 3 /\ Len(deltas) = 2
  /\ deltas[1].videoClipPath # UNDEF
  /\ file.scenes[1].videoClipPath = UNDEF

\* the step is runFromStage's rewind of an existing state file
RewindStep ==
  /\ pc = "idle" /\ file # NoFile
  /\ obs'.op = "runFromStage" /\ obs'.rewound

\* the step is resetAndRun's reset of the state file
ResetFileStep == pc = "idle" /\ obs'.op = "resetAndRun"

\* C39: the error field is cleared only by a successful stage transition or
\* by a reset. An applied delta and the rewind of runFromStage write the
\* error they found, an error on file stays there until a transition
\* succeeds or the file is reset, and no state of stage ASSEMBLED carries an
\* error.
C39_ErrorClearedByTransitionOrReset ==
  /\ []((file # NoFile /\ file.stage = "ASSEMBLED") => file.error = NULL)
  /\ []((mem # NoState /\ mem.stage = "ASSEMBLED") => mem.error = NULL)
  /\ [][(file # NoFile /\ file.error # NULL /\ file'.error = NULL)
          => \/ last'.op = "transitionStage" /\ last'.ok
             \/ ResetFileStep]_vars
  /\ [][(last'.op = "applyDelta" /\ last'.ok)
          => (file'.error = file.error /\ hst'.error = hst.error)]_vars
  /\ [][RewindStep => file'.error = file.error]_vars

\* a failed run's error is still on file after a later run applied a delta
C39_Witness ==
  /\ last.op = "applyDelta" /\ last.ok
  /\ file.error # NULL /\ hst.error # NULL
  /\ obs.prevFailed # "none"

\* the step is a successful write of applyDelta, transitionStage or setError
WriteStep == last'.op \in {"applyDelta", "transitionStage", "setError"} /\ last'.ok

\* both invocations are in the handler of the same stage
SameHandler ==
  /\ obs.outcome = "running" /\ obs.other.obs.outcome = "running"
  /\ obs.handler # "none" /\ obs.handler = obs.other.obs.handler

\* C40: two runPipeline invocations on one state file are not kept apart.
\* Every write of either puts the writer's own copy of the whole state on
\* file, whatever the file held, so that when the two interleave both run the
\* handler of the same stage and what one committed is gone after the
\* other's write.
C40_WritesOwnCopy ==
  /\ [][WriteStep => file' = [last'.result EXCEPT !.updatedAt = clock']]_vars
  /\ [][(pc = "rp_loop" /\ obs'.switches = obs.switches /\ mem.stage # "ASSEMBLED")
          => (pc' = STAGE_HANDLERS(mem.stage) /\ hst' = mem)]_vars

\* both invocations are in the SCRIPTED handler, and the delta one has just
\* applied took from the file a visual prompt the other had committed
C40_Witness ==
  /\ SameHandler /\ obs.handler = "SCRIPTED"
  /\ last.op = "applyDelta" /\ last.ok
  /\ \E i \in 1..Len(file.scenes) :
       /\ last.before.scenes[i].visualPrompt # UNDEF
       /\ file.scenes[i].visualPrompt = UNDEF
====
